---- MODULE Spec2Model ----
(***************************************************************************)
(* A model of the context-owned uniquing and IR core of MLIR:              *)
(* MLIRContext (dialect loading, registries, extensions, threading),       *)
(* DialectRegistry, TypeID and the storage uniquer.                        *)
(*                                                                         *)
(* Pointers are natural numbers: 0 is nullptr and k > 0 is the address of  *)
(* the k-th object of its heap.  Operations on one container (DenseMap,    *)
(* std::map, MapVector) are taken as atomic steps; everything between two  *)
(* container operations of a handler that calls back into user code (a     *)
(* dialect constructor) can interleave with other threads and can recurse. *)
(***************************************************************************)
EXTENDS Integers, Sequences, FiniteSets, TLC

\* ------------------------------------------------------------------------
\* Universe of the model
\* ------------------------------------------------------------------------

\* The threads sharing one MLIRContext.
Threads == {"t1", "t2"}

\* Strings (StringRef, std::string) are sequences of characters.
\* Dialect namespaces used by the clients.
Namespaces == {<<"a">>, <<"b">>}

\* Dialect classes: A and A2 both claim namespace "a" (two shared objects
\* defining the "same" dialect with different identities), B claims "b".
DialectClasses == {"A", "A2", "B"}

\* Dialect::getDialectNamespace() of each class.
getDialectNamespace(T) == IF T = "B" THEN <<"b">> ELSE <<"a">>

\* TypeID::get<T>() of the dialect classes: the address of the static slot of
\* the class (8-aligned, one slot per class).
DialectTypeID(T) == CASE T = "A" -> 8 [] T = "A2" -> 16 [] T = "B" -> 24

\* The builtin dialect, which the constructor of the context loads: its
\* namespace, its TypeID and the address of the one BuiltinDialect object.
BuiltinNamespace == <<"b", "u", "i", "l", "t", "i", "n">>
BuiltinTypeID == 32
BuiltinDialect == 1
AllNamespaces == Namespaces \cup {BuiltinNamespace}
DirectlyLoadedClasses == {"A", "B"}

\* How far the debug counter multiThreadedExecutionContext is driven.
MaxMTDepth == 1

\* The number of OperationName::Impl objects the context may create.
MaxImpls == 3

\* The number of storage objects the affine uniquer may construct.
MaxStorages == 3

\* The number of TypeID::Storage slots the heap has room for.
MaxHeap == 3

\* The number of calls the action log records.
MaxActionCalls == 3

\* The largest number of results an operation is created with.
MaxResults == 8

\* The largest number of operands an operation is created with.
MaxOperands == 2

\* ------------------------------------------------------------------------
\* State
\* ------------------------------------------------------------------------
VARIABLES
  ndebug,           \* the build: TRUE when NDEBUG is defined (no asserts)
  loadedDialects,   \* MLIRContextImpl::loadedDialects: namespace -> pointer
  dialectObjs,      \* heap of constructed Dialect objects, by address
  stack,            \* per thread: the getOrLoadDialect calls whose ctor runs
  returned,         \* per namespace: pointers getOrLoadDialect has returned
  last,             \* the last call that completed, with its result
  fatal,            \* the fatal error that ended the process, if any
  multiThreadedExecutionContext,  \* MLIRContextImpl's debug counter
  dialectsRegistry, \* MLIRContextImpl::dialectsRegistry
  userRegistry,     \* a DialectRegistry object owned by the client
  applyLog,         \* every DialectExtensionBase::apply call made so far
  strAttrStorages,  \* the uniqued StringAttrStorage objects: value ->
                    \* referencedDialect
  dialectReferencingStrAttrs,  \* namespace -> storages awaiting the dialect
  registeredTypes,  \* MLIRContextImpl::registeredTypes: TypeID -> name
  nameToType,       \* MLIRContextImpl::nameToType: name -> TypeID
  registeredAttributes,  \* TypeID -> name
  nameToAttribute,       \* name -> TypeID
  opImpls,          \* heap of OperationName::Impl objects, by address
  operations,       \* MLIRContextImpl::operations: name -> Impl pointer
  registeredOperations,        \* TypeID -> Impl pointer
  registeredOperationsByName,  \* name -> Impl pointer
  sortedRegisteredOperations,  \* Impl pointers, the registered operations
  operationNames,   \* name -> the Impl pointers of the OperationName objects
                    \* constructed from the name
  uniquerThreading, \* the mode of the affine uniquer: multi-threaded or not
  uniquerStorages,  \* heap of AffineMapStorage objects, by address
  uniquerInstances, \* the uniquer's set of instances: key value -> storage
  uniquerWriter,    \* the thread that holds the uniquer's write lock
  uniquerPending,   \* per thread, the key of a get that missed its lookup
  uniquerReturned,  \* key value -> the storage pointers get has returned
  staticSlotID,     \* per type, the function-local "static TypeID id"
  implicitTypeIDs,  \* the registry of implicit TypeIDs: type name -> TypeID
  allocatorIDs,     \* live TypeIDAllocator -> the addresses it allocated
  issuedTypeIDs,    \* every TypeID handed out so far
  gotTypeIDs,       \* per type, the values TypeID::get<T>() has returned
  lastAllocated,    \* the result of the last TypeIDAllocator::allocate()
  llvmEnableThreads,   \* the build: LLVM_ENABLE_THREADS != 0
  disableThreading,    \* clOptions is constructed and its disableThreading
                       \* option (--mlir-disable-threading) is set
  threadingIsEnabled,  \* MLIRContextImpl::threadingIsEnabled
  threadPool,          \* MLIRContextImpl::threadPool (0 is nullptr)
  ownedThreadPool,     \* MLIRContextImpl::ownedThreadPool (0 is empty)
  destroyedPools,      \* the pools the context has destroyed
  actionHandler,       \* MLIRContextImpl::actionHandler ("none" is empty)
  actionLog,           \* the calls made by executeAction and by handlers
  irOps,               \* heap of Operation objects, by creation order
  lastResultImpl,      \* the result of the last Operation::getOpResultImpl
  lastClone,           \* the last Operation::clone: its arguments and result
  strAttrInFlight,     \* per thread, the value of the StringAttr storage
                       \* whose initialize() has found no loaded dialect and
                       \* has not yet recorded the storage as pending
  opNamePending,       \* per thread, the name an OperationName constructor
                       \* has looked up in vain and is about to insert
  attrOp,              \* the Operation whose properties size and attributes
                       \* are accessed: its header fields
  lastAttrCall         \* the last attribute accessor called on attrOp

\* The part of the state that belongs to dialect loading.
loadVars == <<loadedDialects, dialectObjs, stack, returned>>
\* The part of the state that belongs to the registries.
regVars == <<dialectsRegistry, userRegistry, applyLog>>

\* The StringAttr storages and the identifiers awaiting a dialect.
strVars == <<strAttrStorages, dialectReferencingStrAttrs>>
\* The tables of registered type, attribute and operation kinds.
typeVars == <<registeredTypes, nameToType>>
attrVars == <<registeredAttributes, nameToAttribute>>
opVars == <<opImpls, operations, registeredOperations,
            registeredOperationsByName, sortedRegisteredOperations,
            operationNames>>
kindVars == <<typeVars, attrVars, opVars>>

\* The affine storage uniquer.
uniquerVars == <<uniquerThreading, uniquerStorages, uniquerInstances,
                 uniquerWriter, uniquerPending, uniquerReturned>>
\* The TypeIDs of the process.
typeIDVars == <<staticSlotID, implicitTypeIDs, allocatorIDs, issuedTypeIDs,
                gotTypeIDs, lastAllocated>>
\* The threading configuration of the process and of the context.
threadVars == <<llvmEnableThreads, disableThreading, threadingIsEnabled,
                threadPool, ownedThreadPool, destroyedPools>>
\* The action handler and the calls dispatched through it.
actionVars == <<actionHandler, actionLog>>
\* The facilities of the context beside its tables.
\* The operations created so far and the last accesses to them.
irVars == <<irOps, lastResultImpl, lastClone>>
\* The calls that are between two of their steps.
inFlightVars == <<strAttrInFlight, opNamePending>>
\* The operation with properties and attributes, and the last call on it.
opAttrVars == <<attrOp, lastAttrCall>>
facilityVars == <<threadVars, actionVars, irVars, inFlightVars,
                  opAttrVars>>
\* The state of the context that neither the uniquer nor the TypeIDs touch.
contextVars == <<ndebug, loadedDialects, dialectObjs, stack, returned, last,
                 multiThreadedExecutionContext, dialectsRegistry,
                 userRegistry, applyLog, strVars, kindVars, facilityVars>>

vars == <<ndebug, loadedDialects, dialectObjs, stack, returned, last, fatal,
          multiThreadedExecutionContext, dialectsRegistry, userRegistry,
          applyLog, strVars, kindVars, uniquerVars, typeIDVars,
          facilityVars>>

NoFatal == [kind |-> "none", t |-> "none", ns |-> <<>>]
NoCall == [t |-> "none", op |-> "none", ns |-> <<>>, ret |-> 0,
           ctor |-> FALSE]

Range(f) == {f[i] : i \in DOMAIN f}
Top(s) == s[Len(s)]
Pop(s) == SubSeq(s, 1, Len(s) - 1)

\* ------------------------------------------------------------------------
\* The loaded-dialect table (DenseMap<StringRef, std::unique_ptr<Dialect>>)
\* ------------------------------------------------------------------------

\* DenseMap::find(): is there an entry for the key.
HasEntry(ns) == ns \in DOMAIN loadedDialects

\* The three states of a namespace in the table.
Unloaded(ns) == ~HasEntry(ns)
Loading(ns) == HasEntry(ns) /\ loadedDialects[ns] = 0
Loaded(ns) == HasEntry(ns) /\ loadedDialects[ns] # 0

\* A try_emplace that reports an insertion whatever the table holds.
TryEmplaceAlwaysInserted(tbl, ns) == TRUE

\* DenseMap::try_emplace(key, nullptr).second: whether the entry was inserted.
TryEmplaceInserted(tbl, ns) == ns \notin DOMAIN tbl

\* A try_emplace that installs no placeholder.
TryEmplaceNothing(tbl, ns) == tbl

\* DenseMap::try_emplace(key, nullptr): the table afterwards.
TryEmplaceNull(tbl, ns) ==
  IF ns \in DOMAIN tbl THEN tbl
  ELSE [k \in DOMAIN tbl \cup {ns} |-> IF k = ns THEN 0 ELSE tbl[k]]

\* A store that leaves the table as ctor() left it.
StoreNothing(tbl, ns, ptr) == tbl

\* loadedDialects[ns] = ptr: operator[] looks the key up again, then stores.
StoreDialect(tbl, ns, ptr) ==
  [k \in DOMAIN tbl \cup {ns} |-> IF k = ns THEN ptr ELSE tbl[k]]

\* Where the entry of ns lives in the table: DenseMap invalidates every
\* iterator and reference when an insertion happens, so a slot is known by
\* the number of entries the table held when it was resolved.
Slot(tbl, ns) == [buckets |-> Cardinality(DOMAIN tbl), ns |-> ns]

\* The slot try_emplace returned before ctor() ran (dialectIt).
SlotBeforeCtor(tbl, frame) == frame.slot

\* The slot the final store writes: in "loadedDialects[ns] = ctor()" the
\* right operand is evaluated first, so operator[] resolves the slot in the
\* table as ctor() left it.
FinalStoreSlot(tbl, frame) == Slot(tbl, frame.ns)

\* A store through a slot: it lands in the table when the slot is the one
\* the namespace lives in now; a slot of a table since grown is freed
\* memory.
StoreAtSlot(tbl, slot, ptr) ==
  IF slot = Slot(tbl, slot.ns) THEN StoreDialect(tbl, slot.ns, ptr) ELSE tbl

\* The lookup of MLIRContext::getLoadedDialect(name) in a given table: the
\* pointer stored, or nullptr when there is no entry.
LookupDialect(tbl, ns) == IF ns \in DOMAIN tbl THEN tbl[ns] ELSE 0

\* MLIRContext::getLoadedDialect(name).
getLoadedDialect(ns) == LookupDialect(loadedDialects, ns)

\* An isDialectLoading that never sees a load in progress.
isDialectLoadingNever(ns) == FALSE

\* MLIRContext::isDialectLoading(ns).
isDialectLoading(ns) == HasEntry(ns) /\ loadedDialects[ns] = 0

\* Dialect::getTypeID() of the dialect object at a non-null address.
getTypeID(ptr) == dialectObjs[ptr].typeID

\* A comparison that accepts every TypeID.
TypeIDAlwaysMatches(ptr, id) == TRUE

\* getOrLoadDialect, "dialect->getTypeID() != dialectID" negated: the
\* dialect found is of the class asked for.
TypeIDMatches(ptr, id) == getTypeID(ptr) = id

\* A context that never notices a multi-threaded execution.
NeverInMultiThreadedExecution == FALSE

\* The debug-only test "impl.multiThreadedExecutionContext != 0" that
\* getOrLoadDialect makes and that the asserts of addType, addAttribute,
\* RegisteredOperationName::insert and appendDialectRegistry negate.
InMultiThreadedExecution == ~ndebug /\ multiThreadedExecutionContext # 0

\* Number of times a constructor was invoked for a namespace.
CtorCalls(ns) ==
  Cardinality({k \in 1..Len(dialectObjs) : dialectObjs[k].ns = ns})

\* ------------------------------------------------------------------------
\* DialectRegistry
\* ------------------------------------------------------------------------

\* A registry: MapTy registry (std::map, namespace -> (TypeID, allocator)) and
\* the MapVector of extensions, keyed by the extension's TypeID, in
\* insertion order.  The allocator of insert<T>() is named by its class T.
EmptyRegistry == [registry |-> <<>>, extensions |-> <<>>]

\* The order in which std::map iterates its keys.
NamespaceOrder == << <<"a">>, <<"b">> >>

\* DialectRegistry::insert(typeID, name, ctor): records the entry; an entry
\* already held under the name is kept (nothing is detected at insert time).
RegistryInsert(reg, id, ns, T) ==
  IF ns \in DOMAIN reg.registry THEN reg
  ELSE [reg EXCEPT !.registry =
          [k \in DOMAIN reg.registry \cup {ns} |->
             IF k = ns THEN [typeID |-> id, T |-> T] ELSE reg.registry[k]]]

\* extensions.try_emplace(id, extension): the MapVector afterwards.
ExtensionsTryEmplace(exts, e) ==
  IF e \in Range(exts) THEN exts ELSE Append(exts, e)

\* DialectRegistry::addExtension(extensionID, extension).
AddExtension(reg, e) ==
  [reg EXCEPT !.extensions = ExtensionsTryEmplace(reg.extensions, e)]

\* The first loop of appendTo: destination.insert of every entry of src.
RECURSIVE InsertAll(_, _, _)
InsertAll(names, src, dst) ==
  IF names = <<>> THEN dst
  ELSE LET ns == Head(names) IN
       InsertAll(Tail(names), src,
                 IF ns \in DOMAIN src.registry
                 THEN RegistryInsert(dst, src.registry[ns].typeID, ns,
                                     src.registry[ns].T)
                 ELSE dst)

\* The second loop of appendTo: try_emplace of every extension of src.
RECURSIVE MergeExtensions(_, _)
MergeExtensions(exts, dst) ==
  IF exts = <<>> THEN dst
  ELSE MergeExtensions(Tail(exts), AddExtension(dst, Head(exts)))

\* An appendTo that leaves the destination as it was.
AppendToNothing(src, dst) == dst

\* DialectRegistry::appendTo(destination): the destination afterwards.
AppendTo(src, dst) ==
  MergeExtensions(src.extensions, InsertAll(NamespaceOrder, src, dst))

\* DialectRegistry::isSubsetOf(rhs): every namespace entry and every
\* extension of this registry is present in rhs.
IsSubsetOf(reg, rhs) ==
  /\ \A e \in Range(reg.extensions) : e \in Range(rhs.extensions)
  /\ DOMAIN reg.registry \subseteq DOMAIN rhs.registry

\* DialectRegistry::getDialectAllocator(name): the class whose
\* getOrLoadDialect<T>() the allocator calls, or "none" (a null callable).
getDialectAllocator(reg, ns) ==
  IF ns \in DOMAIN reg.registry THEN reg.registry[ns].T ELSE "none"

\* ------------------------------------------------------------------------
\* Dialect extensions
\* ------------------------------------------------------------------------

\* The extensions of the model, named by their TypeID.
ExtensionIDs == {"eAB", "eAny"}

\* DialectExtensionBase::getRequiredDialects(): eAB is anchored on the
\* dialects "a" and "b"; eAny has no required dialect and is invoked for every
\* loaded dialect independently.
getRequiredDialects(e) == IF e = "eAB" THEN << <<"a">>, <<"b">> >> ELSE <<>>

\* One call of DialectExtensionBase::apply: the extension, the dialects it
\* is handed, and the loaded-dialect table at the time of the call.
ApplyRecord(e, args, tbl) == [ext |-> e, args |-> args, tbl |-> tbl]

\* applyExtensions(Dialect *): what one extension does for the dialect d of
\* namespace ns that has just been loaded (no call, or one call).
ApplyExtensionToDialect(e, tbl, ns, d) ==
  LET req == getRequiredDialects(e)
      args == [i \in DOMAIN req |->
                 IF req[i] = ns THEN d ELSE LookupDialect(tbl, req[i])]
  IN IF req = <<>> THEN <<ApplyRecord(e, <<d>>, tbl)>>
     ELSE IF ns \notin Range(req) THEN <<>>
     ELSE IF \E i \in DOMAIN args : args[i] = 0 THEN <<>>
     ELSE <<ApplyRecord(e, args, tbl)>>

\* DialectRegistry::applyExtensions(Dialect *dialect).
RECURSIVE ApplyExtensionsToDialect(_, _, _, _)
ApplyExtensionsToDialect(exts, tbl, ns, d) ==
  IF exts = <<>> THEN <<>>
  ELSE ApplyExtensionToDialect(Head(exts), tbl, ns, d)
       \o ApplyExtensionsToDialect(Tail(exts), tbl, ns, d)

\* getLoadedDialects(): the order in which the loaded dialects are visited.
LoadedDialectOrder == << <<"a">>, <<"b">>, BuiltinNamespace >>

\* getLoadedDialects() copies every pointer of the table, the null
\* placeholders included, and its sort reads the namespace through each of
\* them (the builtin dialect makes the vector longer than one element).
GetLoadedDialectsReadsNull(tbl) == \E ns \in DOMAIN tbl : tbl[ns] = 0

\* The extensions applied before the first one that calls
\* getLoadedDialects(), and whether there is such an extension.
RECURSIVE ExtensionsBeforeGetLoaded(_)
ExtensionsBeforeGetLoaded(exts) ==
  IF exts = <<>> \/ getRequiredDialects(Head(exts)) = <<>> THEN <<>>
  ELSE <<Head(exts)>> \o ExtensionsBeforeGetLoaded(Tail(exts))
CallsGetLoadedDialects(exts) ==
  \E i \in DOMAIN exts : getRequiredDialects(exts[i]) = <<>>

\* The calls of an extension without required dialects, one per loaded
\* dialect.
RECURSIVE ApplyToEachLoaded(_, _, _)
ApplyToEachLoaded(e, names, tbl) ==
  IF names = <<>> THEN <<>>
  ELSE (IF LookupDialect(tbl, Head(names)) # 0
        THEN <<ApplyRecord(e, <<LookupDialect(tbl, Head(names))>>, tbl)>>
        ELSE <<>>)
       \o ApplyToEachLoaded(e, Tail(names), tbl)

\* applyExtensions(MLIRContext *): what one extension does.
ApplyExtensionToContext(e, tbl) ==
  LET req == getRequiredDialects(e)
      args == [i \in DOMAIN req |-> LookupDialect(tbl, req[i])]
  IN IF req = <<>> THEN ApplyToEachLoaded(e, LoadedDialectOrder, tbl)
     ELSE IF \E i \in DOMAIN args : args[i] = 0 THEN <<>>
     ELSE <<ApplyRecord(e, args, tbl)>>

\* DialectRegistry::applyExtensions(MLIRContext *ctx).
RECURSIVE ApplyExtensionsToContext(_, _)
ApplyExtensionsToContext(exts, tbl) ==
  IF exts = <<>> THEN <<>>
  ELSE ApplyExtensionToContext(Head(exts), tbl)
       \o ApplyExtensionsToContext(Tail(exts), tbl)

\* ------------------------------------------------------------------------
\* Strings and StringAttr storages
\* ------------------------------------------------------------------------

\* The character codes of the characters used.
CharCode(c) ==
  CASE c = "." -> 46 [] c = "a" -> 97 [] c = "b" -> 98 [] c = "s" -> 115
    [] c = "t" -> 116 [] c = "x" -> 120 [] c = "y" -> 121

\* StringRef::compare(rhs): -1, 0 or 1 by lexicographic order.
RECURSIVE StrCompare(_, _)
StrCompare(l, r) ==
  IF l = <<>> /\ r = <<>> THEN 0
  ELSE IF l = <<>> THEN -1
  ELSE IF r = <<>> THEN 1
  ELSE IF CharCode(Head(l)) < CharCode(Head(r)) THEN -1
  ELSE IF CharCode(Head(l)) > CharCode(Head(r)) THEN 1
  ELSE StrCompare(Tail(l), Tail(r))

\* The position of the first '.' of a string, or 0.
FirstDot(v) ==
  IF \E i \in 1..Len(v) : v[i] = "."
  THEN CHOOSE i \in 1..Len(v) :
         v[i] = "." /\ \A j \in 1..(i - 1) : v[j] # "."
  ELSE 0

\* StringRef::split('.'): the parts before and after the first '.'.
SplitDot(v) ==
  IF FirstDot(v) = 0 THEN [first |-> v, second |-> <<>>]
  ELSE [first |-> SubSeq(v, 1, FirstDot(v) - 1),
        second |-> SubSeq(v, FirstDot(v) + 1, Len(v))]

\* A DenseMap without the entry of key k.
EraseKey(map, k) == [x \in DOMAIN map \ {k} |-> map[x]]

\* A map with map[k] = val, the entry inserted when there is none.
PutKey(map, k, val) ==
  [x \in DOMAIN map \cup {k} |-> IF x = k THEN val ELSE map[x]]

\* impl.dialectReferencingStrAttrs[ns].push_back(storage).
PushPending(pending, ns, v) ==
  PutKey(pending, ns,
         IF ns \in DOMAIN pending THEN Append(pending[ns], v) ELSE <<v>>)

\* StringAttrStorage::initialize(context) on the new storage of value v: the
\* storages and the awaiting identifiers afterwards.
StringAttrInitialize(v, storages, pending, tbl) ==
  LET pair == SplitDot(v) IN
  IF pair.first = <<>> \/ pair.second = <<>>
  THEN [storages |-> PutKey(storages, v, 0), pending |-> pending]
  ELSE IF LookupDialect(tbl, pair.first) # 0
  THEN [storages |-> PutKey(storages, v, LookupDialect(tbl, pair.first)),
        pending |-> pending]
  ELSE [storages |-> PutKey(storages, v, 0),
        pending |-> PushPending(pending, pair.first, v)]

\* StringAttr::get(context, v) through the attribute uniquer: the storage of
\* an equal value is returned when there is one, else a storage is built
\* and initialized.
StringAttrGet(v, storages, pending, tbl) ==
  IF v \in DOMAIN storages
  THEN [storages |-> storages, pending |-> pending]
  ELSE StringAttrInitialize(v, storages, pending, tbl)

\* A refresh that patches no storage.
RefreshNoIdentifier(storages, pending, ns, d) == storages

\* getOrLoadDialect, "refresh all the identifiers dialect field": the
\* storages after the dialect d of namespace ns was loaded.
RefreshIdentifiers(storages, pending, ns, d) ==
  IF ns \in DOMAIN pending
  THEN [v \in DOMAIN storages |->
          IF v \in Range(pending[ns]) THEN d ELSE storages[v]]
  ELSE storages

\* ------------------------------------------------------------------------
\* TypeID
\* ------------------------------------------------------------------------

\* The types whose TypeID is asked for.  E1 and E2 declare an explicit
\* TypeID; F1 and F2 use the fallback; N1 and N2 are two types of anonymous
\* namespaces of two translation units, which use the fallback too.
ExplicitTypes == {"E1", "E2"}
FallbackTypes == {"F1", "F2", "N1", "N2"}
Types == ExplicitTypes \cup FallbackTypes

\* llvm::getTypeName<T>().
getTypeName(T) ==
  IF T \in {"N1", "N2"} THEN "(anonymous namespace)::N" ELSE T

\* The address of the static SelfOwningTypeID of a type that declares an
\* explicit TypeID: an object of static storage, 8-aligned.
SelfOwningTypeIDAddress(T) == IF T = "E1" THEN 808 ELSE 816

\* registerImplicitTypeID: the name is one of an anonymous namespace, which
\* the implicit registry refuses.
IsAnonymousName(name) == name = "(anonymous namespace)::N"

\* The 8-aligned heap addresses a TypeID::Storage can be allocated at.
HeapAddresses == {8 * k : k \in 1..MaxHeap}

\* The TypeIDAllocator objects of the client.
Allocators == {"al1", "al2"}

\* The heap addresses in use: those allocated by the allocators alive and
\* by the allocator of the implicit registry, which lives as long as the
\* process.
UsedAddresses ==
  Range(implicitTypeIDs)
    \cup UNION {allocatorIDs[a] : a \in DOMAIN allocatorIDs}

\* An allocation that may hand out an address that is in use.
AnyAddresses(used) == HeapAddresses

\* ids.Allocate(): the addresses an allocation can return are those not in
\* use.
FreshAddresses(used) == HeapAddresses \ used

\* TypeID::operator==: the storage pointers are compared.
TypeIDEquals(a, b) == a = b

\* The TypeIDs that are valid: those of the static objects, those of the
\* implicit registry and those of the allocators alive.
ValidTypeIDs ==
  {SelfOwningTypeIDAddress(T) : T \in ExplicitTypes} \cup UsedAddresses

TypeIDInit ==
  /\ staticSlotID = [T \in FallbackTypes |-> 0]
  /\ implicitTypeIDs = <<>>
  /\ allocatorIDs = <<>>
  /\ issuedTypeIDs = {}
  /\ gotTypeIDs = [T \in Types |-> {}]
  /\ lastAllocated = 0

\* TypeID::get<T>() returns id.
TypeIDReturn(T, id) ==
  /\ gotTypeIDs' = [gotTypeIDs EXCEPT ![T] = @ \cup {id}]
  /\ issuedTypeIDs' = issuedTypeIDs \cup {id}

\* TypeID::get<T>(): the resolver of T gives the address of the static
\* SelfOwningTypeID of T, or, for the fallback, the function-local static id,
\* initialised on the first call by registerImplicitTypeID(getTypeName<T>()).
\* registerImplicitTypeID refuses the name of an anonymous namespace, and
\* else looks the name up in the implicit registry, allocating a TypeID for
\* a name it does not hold.
TypeIDGet(T) ==
  /\ fatal = NoFatal
  /\ IF T \in ExplicitTypes
     THEN /\ TypeIDReturn(T, SelfOwningTypeIDAddress(T))
          /\ UNCHANGED <<staticSlotID, implicitTypeIDs, fatal>>
     ELSE IF staticSlotID[T] # 0
     THEN /\ TypeIDReturn(T, staticSlotID[T])
          /\ UNCHANGED <<staticSlotID, implicitTypeIDs, fatal>>
     ELSE IF IsAnonymousName(getTypeName(T))
     THEN /\ fatal' = [kind |-> "AnonymousTypeID", t |-> "none", ns |-> <<>>]
          /\ UNCHANGED <<staticSlotID, implicitTypeIDs, gotTypeIDs,
                         issuedTypeIDs>>
     ELSE IF getTypeName(T) \in DOMAIN implicitTypeIDs
     THEN /\ staticSlotID' =
               [staticSlotID EXCEPT ![T] = implicitTypeIDs[getTypeName(T)]]
          /\ TypeIDReturn(T, implicitTypeIDs[getTypeName(T)])
          /\ UNCHANGED <<implicitTypeIDs, fatal>>
     ELSE \E id \in FreshAddresses(UsedAddresses) :
            /\ implicitTypeIDs' = PutKey(implicitTypeIDs, getTypeName(T), id)
            /\ staticSlotID' = [staticSlotID EXCEPT ![T] = id]
            /\ TypeIDReturn(T, id)
            /\ UNCHANGED fatal
  /\ UNCHANGED <<allocatorIDs, lastAllocated, uniquerVars, contextVars>>

\* A TypeIDAllocator is constructed.
AllocatorCreate(a) ==
  /\ fatal = NoFatal
  /\ a \notin DOMAIN allocatorIDs
  /\ allocatorIDs' = PutKey(allocatorIDs, a, {})
  /\ UNCHANGED <<staticSlotID, implicitTypeIDs, issuedTypeIDs, gotTypeIDs,
                 lastAllocated, uniquerVars, contextVars, fatal>>

\* TypeIDAllocator::allocate().
AllocatorAllocate(a) ==
  /\ fatal = NoFatal
  /\ a \in DOMAIN allocatorIDs
  /\ \E id \in FreshAddresses(UsedAddresses) :
       /\ allocatorIDs' = [allocatorIDs EXCEPT ![a] = @ \cup {id}]
       /\ issuedTypeIDs' = issuedTypeIDs \cup {id}
       /\ lastAllocated' = id
  /\ UNCHANGED <<staticSlotID, implicitTypeIDs, gotTypeIDs, uniquerVars,
                 contextVars, fatal>>

\* A TypeIDAllocator is destroyed: its SpecificBumpPtrAllocator frees the
\* storages it allocated.
AllocatorDestroy(a) ==
  /\ fatal = NoFatal
  /\ a \in DOMAIN allocatorIDs
  /\ allocatorIDs' = EraseKey(allocatorIDs, a)
  /\ UNCHANGED <<staticSlotID, implicitTypeIDs, issuedTypeIDs, gotTypeIDs,
                 lastAllocated, uniquerVars, contextVars, fatal>>

\* ------------------------------------------------------------------------
\* The affine storage uniquer and AffineMap::getImpl
\* ------------------------------------------------------------------------

\* The ArrayRef<AffineExpr> arguments of the calls: two arrays at different
\* addresses that hold the same expressions.
ResultArrays == {[addr |-> 1, elems |-> <<"d0">>],
                 [addr |-> 2, elems |-> <<"d0">>]}

\* The keys AffineMap::getImpl is called with: dimCount, symbolCount, results.
AffineMapKeys ==
  [dimCount : {1}, symbolCount : {0, 1}, results : ResultArrays]

\* No key: the thread is not inside a get.
NoKey == [dimCount |-> 0, symbolCount |-> 0,
          results |-> [addr |-> 0, elems |-> <<>>]]

\* The key a storage keeps: the counts and a copy of the expressions.
KeyValue(key) == <<key.dimCount, key.symbolCount, key.results.elems>>

AffineMapKeyValues == {KeyValue(key) : key \in AffineMapKeys}

\* The equality of a storage against a key: structural.
StorageEqualsKey(storage, key) == storage.key = KeyValue(key)

\* A lookup that finds nothing.
UniquerFindNothing(instances, storages, key) == 0

\* The lookup of a key in the set of instances: the storage equal to the
\* key, or nullptr.
UniquerFind(instances, storages, key) ==
  IF \E p \in instances : StorageEqualsKey(storages[p], key)
  THEN CHOOSE p \in instances : StorageEqualsKey(storages[p], key)
  ELSE 0

\* The storage AffineMapStorage::construct builds for a key, after the
\* initFn of AffineMap::getImpl has set its context.
ConstructStorage(key) == [key |-> KeyValue(key), context |-> 1]

\* Lookup-or-insert of a key: the storage found, or a storage constructed
\* and inserted.
UniquerGetOrCreate(t, key) ==
  LET found == UniquerFind(uniquerInstances, uniquerStorages, key)
      ptr == IF found # 0 THEN found ELSE Len(uniquerStorages) + 1
  IN /\ found = 0 => Len(uniquerStorages) < MaxStorages
     /\ uniquerStorages' = IF found # 0 THEN uniquerStorages
                           ELSE Append(uniquerStorages, ConstructStorage(key))
     /\ uniquerInstances' = uniquerInstances \cup {ptr}
     /\ uniquerReturned' =
          [uniquerReturned EXCEPT ![KeyValue(key)] = @ \cup {ptr}]

\* AffineMap::getImpl(dimCount, symbolCount, results, context) up to the
\* end of the uniquer's lookup.  Without threading the uniquer takes no lock
\* and the one thread that uses it looks the key up and inserts it in a
\* row; with threading the lookup is made under the read lock, and a miss
\* leaves the thread waiting for the write lock.
AffineMapGetImpl(t, key) ==
  /\ fatal = NoFatal
  /\ uniquerPending[t] = NoKey
  /\ IF ~uniquerThreading
     THEN /\ t = "t1"
          /\ UniquerGetOrCreate(t, key)
          /\ UNCHANGED <<uniquerWriter, uniquerPending>>
     ELSE /\ uniquerWriter = "none"
          /\ LET found == UniquerFind(uniquerInstances, uniquerStorages, key)
             IN IF found # 0
                THEN /\ uniquerReturned' =
                          [uniquerReturned EXCEPT ![KeyValue(key)] =
                             @ \cup {found}]
                     /\ UNCHANGED uniquerPending
                ELSE /\ uniquerPending' = [uniquerPending EXCEPT ![t] = key]
                     /\ UNCHANGED uniquerReturned
          /\ UNCHANGED <<uniquerStorages, uniquerInstances, uniquerWriter>>
  /\ UNCHANGED <<uniquerThreading, typeIDVars, contextVars, fatal>>

\* StorageUniquer::disableMultithreading(disable): the mode switch, used
\* while no get is in flight.
UniquerDisableMultithreading(disable) ==
  /\ fatal = NoFatal
  /\ uniquerWriter = "none"
  /\ \A t \in Threads : uniquerPending[t] = NoKey
  /\ uniquerThreading' = ~disable
  /\ UNCHANGED <<uniquerStorages, uniquerInstances, uniquerWriter,
                 uniquerPending, uniquerReturned, typeIDVars, contextVars,
                 fatal>>

\* A thread whose lookup missed takes the write lock of the uniquer.
UniquerWriteLock(t) ==
  /\ fatal = NoFatal
  /\ uniquerPending[t] # NoKey
  /\ uniquerWriter = "none"
  /\ uniquerWriter' = t
  /\ UNCHANGED <<uniquerThreading, uniquerStorages, uniquerInstances,
                 uniquerPending, uniquerReturned, typeIDVars, contextVars,
                 fatal>>

\* Under the write lock the thread inserts the key, constructing a storage
\* only when no equal one is there, releases the lock and returns.
UniquerInsert(t) ==
  /\ fatal = NoFatal
  /\ uniquerWriter = t
  /\ UniquerGetOrCreate(t, uniquerPending[t])
  /\ uniquerPending' = [uniquerPending EXCEPT ![t] = NoKey]
  /\ uniquerWriter' = "none"
  /\ UNCHANGED <<uniquerThreading, typeIDVars, contextVars, fatal>>

\* ------------------------------------------------------------------------
\* Threading: the global flag, the threading mode and the thread pool
\* ------------------------------------------------------------------------

\* MLIRContext::Threading, the argument of the constructor.
ThreadingSettings == {"DISABLED", "ENABLED"}

\* Thread pools: the pools clients own and inject with setThreadPool, and
\* the address of the DefaultThreadPool the context makes for itself.
ExternalPools == {1, 2}
OwnedPoolAddress == 3

\* A flag that never disables threading.
NeverGloballyDisabled(threads, flag) == FALSE

\* isThreadingGloballyDisabled(): TRUE in a build without threads, else
\* the value of the command-line option once clOptions is constructed.
isThreadingGloballyDisabled(threads, flag) == ~threads \/ flag

\* MLIRContext::isMultithreadingEnabled(), of the flag threadingIsEnabled:
\* llvm::llvm_is_multithreaded() is LLVM_ENABLE_THREADS != 0.
isMultithreadingEnabledOf(enabled) == enabled /\ llvmEnableThreads
isMultithreadingEnabled == isMultithreadingEnabledOf(threadingIsEnabled)

\* A context that takes every pool for its own.
AlwaysOwnsPool(owned) == TRUE

\* if (impl->ownedThreadPool): the context owns a pool.
OwnsPool(owned) == owned # 0

\* The part of the state the threading calls work on.
ThreadingState ==
  [threadingIsEnabled |-> threadingIsEnabled,
   threadPool |-> threadPool,
   ownedThreadPool |-> ownedThreadPool,
   destroyedPools |-> destroyedPools,
   uniquerThreading |-> uniquerThreading,
   fatal |-> fatal]

\* A reset that destroys nothing.
KeepOwnedThreadPool(s) == s

\* ownedThreadPool.reset(): the owned pool, if any, is destroyed.
ResetOwnedThreadPool(s) ==
  [s EXCEPT !.destroyedPools =
              IF s.ownedThreadPool # 0 THEN @ \cup {s.ownedThreadPool}
              ELSE @,
            !.ownedThreadPool = 0]

\* MLIRContext::disableMultithreading(disable), from the state s.
DisableMultithreadingFrom(s, disable) ==
  IF isThreadingGloballyDisabled(llvmEnableThreads, disableThreading)
  THEN s
  ELSE IF InMultiThreadedExecution
  THEN [s EXCEPT !.fatal = [kind |-> "AssertThreadingInMultiThreaded",
                            t |-> "t1", ns |-> <<>>]]
  ELSE LET modes == [s EXCEPT !.threadingIsEnabled = ~disable,
                              !.uniquerThreading = ~disable]
       IN IF disable
          THEN IF OwnsPool(modes.ownedThreadPool)
               THEN ResetOwnedThreadPool([modes EXCEPT !.threadPool = 0])
               ELSE modes
          ELSE IF modes.threadPool = 0
          THEN [modes EXCEPT !.ownedThreadPool = OwnedPoolAddress,
                             !.threadPool = OwnedPoolAddress]
          ELSE modes

\* MLIRContext::setThreadPool(pool), from the state s.
SetThreadPoolFrom(s, pool) ==
  IF ~ndebug /\ isMultithreadingEnabledOf(s.threadingIsEnabled)
  THEN [s EXCEPT !.fatal = [kind |-> "AssertSetThreadPoolWhileEnabled",
                            t |-> "t1", ns |-> <<>>]]
  ELSE DisableMultithreadingFrom(
         ResetOwnedThreadPool([s EXCEPT !.threadPool = pool]), FALSE)

\* The state a threading call leaves; the uniquers change their mode while
\* no get is in flight.
ThreadingCall(s, op) ==
  /\ fatal = NoFatal
  /\ uniquerWriter = "none"
  /\ \A t \in Threads : uniquerPending[t] = NoKey
  /\ threadingIsEnabled' = s.threadingIsEnabled
  /\ threadPool' = s.threadPool
  /\ ownedThreadPool' = s.ownedThreadPool
  /\ destroyedPools' = s.destroyedPools
  /\ uniquerThreading' = s.uniquerThreading
  /\ fatal' = s.fatal
  /\ last' = IF s.fatal = NoFatal
             THEN [t |-> "t1", op |-> op, ns |-> <<>>, ret |-> 0,
                   ctor |-> FALSE]
             ELSE last
  /\ UNCHANGED <<uniquerStorages, uniquerInstances, uniquerWriter,
                 uniquerPending, uniquerReturned, typeIDVars, actionVars,
                 irVars, opAttrVars, inFlightVars, llvmEnableThreads,
                 disableThreading, ndebug, loadVars,
                 multiThreadedExecutionContext, regVars, strVars, kindVars>>

\* MLIRContext::disableMultithreading(disable).
DisableMultithreading(disable) ==
  ThreadingCall(DisableMultithreadingFrom(ThreadingState, disable),
                "disableMultithreading")

\* MLIRContext::enableMultithreading(enable).
EnableMultithreading(enable) ==
  ThreadingCall(DisableMultithreadingFrom(ThreadingState, ~enable),
                "enableMultithreading")

\* MLIRContext::setThreadPool(pool).
SetThreadPool(pool) ==
  ThreadingCall(SetThreadPoolFrom(ThreadingState, pool), "setThreadPool")

\* The command line is parsed: clOptions is constructed and the option
\* mlir-disable-threading takes the value given.
ParseDisableThreading(flag) ==
  /\ fatal = NoFatal
  /\ disableThreading # flag
  /\ disableThreading' = flag
  /\ UNCHANGED <<uniquerVars, typeIDVars, actionVars, irVars, opAttrVars, inFlightVars,
                 llvmEnableThreads, threadingIsEnabled, threadPool, ownedThreadPool,
                 destroyedPools, ndebug, loadVars, last, fatal,
                 multiThreadedExecutionContext, regVars, strVars, kindVars>>

\* ------------------------------------------------------------------------
\* Action handling
\* ------------------------------------------------------------------------

\* The handlers clients register: h1 runs the function it is handed, h2
\* drops it.  "none" is the empty std::function.
ActionHandlers == {"h1", "h2"}
ActionFns == {"f1", "f2"}
Actions == {"act"}

\* A handler that is never seen.
HasNoActionHandler(handler) == FALSE

\* MLIRContext::hasActionHandler().
hasActionHandler(handler) == handler # "none"

\* What a handler does with (fn, action): the calls it makes.
HandlerCalls(handler, fn, action) ==
  IF handler = "h1"
  THEN <<[callee |-> fn, by |-> handler, fn |-> "none", action |-> "none"]>>
  ELSE <<>>

\* MLIRContext::executeActionInternal(actionFn, action): the handler is
\* called with (actionFn, action).
executeActionInternal(handler, fn, action) ==
  <<[callee |-> handler, by |-> "executeAction", fn |-> fn,
     action |-> action]>>
  \o HandlerCalls(handler, fn, action)

\* MLIRContext::registerActionHandler(handler).
RegisterActionHandler(handler) ==
  /\ fatal = NoFatal
  /\ actionHandler' = handler
  /\ last' = [t |-> "t1", op |-> "registerActionHandler", ns |-> <<>>,
              ret |-> 0, ctor |-> FALSE]
  /\ UNCHANGED <<uniquerVars, typeIDVars, threadVars, irVars, opAttrVars,
                 inFlightVars, actionLog,
                 ndebug,
                 loadVars, fatal, multiThreadedExecutionContext, regVars,
                 strVars, kindVars>>

\* MLIRContext::executeAction(actionFn, action).
ExecuteAction(fn, action) ==
  /\ fatal = NoFatal
  /\ Len(actionLog) < MaxActionCalls
  /\ actionLog' = actionLog \o
       (IF hasActionHandler(actionHandler)
        THEN executeActionInternal(actionHandler, fn, action)
        ELSE <<[callee |-> fn, by |-> "executeAction", fn |-> "none",
                action |-> "none"]>>)
  /\ last' = [t |-> "t1", op |-> "executeAction", ns |-> <<>>,
              ret |-> 0, ctor |-> FALSE]
  /\ UNCHANGED <<uniquerVars, typeIDVars, threadVars, irVars, opAttrVars, inFlightVars,
                 actionHandler, ndebug,
                 loadVars, fatal, multiThreadedExecutionContext, regVars,
                 strVars, kindVars>>

\* ------------------------------------------------------------------------
\* Operation: the results stored before the header
\* ------------------------------------------------------------------------

\* detail::OpResultImpl::getMaxInlineResults(), sizeof(detail::InlineOpResult)
\* and sizeof(detail::OutOfLineOpResult) on a 64-bit target, and
\* sizeof(Operation).  Value.h is not part of the sources at hand: the inline
\* capacity is "a fixed inline capacity", an out-of-line result is an inline
\* one plus "an explicit index field".
MaxInlineResults == 6
InlineOpResultSize == 16
OutOfLineOpResultSize == 24
OperationSize == 64

\* The blocks malloc hands out, each large enough for any operation created
\* here.
HeapBlocks == {0, 512, 1024}

Min(a, b) == IF a < b THEN a ELSE b

\* OpResult::getNumInline(numResults) and OpResult::getNumTrailing(numResults):
\* the first results, up to the inline capacity, are inline and the
\* remainder out of line.
getNumInline(numResults) == Min(numResults, MaxInlineResults)
getNumTrailing(numResults) == numResults - getNumInline(numResults)

\* Operation::prefixAllocSize(numOutOfLineResults, numInlineResults).
prefixAllocSizeOf(numOutOfLineResults, numInlineResults) ==
  OutOfLineOpResultSize * numOutOfLineResults
  + InlineOpResultSize * numInlineResults

\* Operation::prefixAllocSize().
prefixAllocSize(numResults) ==
  prefixAllocSizeOf(getNumTrailing(numResults), getNumInline(numResults))

\* Operation::getInlineOpResult(resultNumber): an InlineOpResult pointer
\* stepped back from this by ++resultNumber.
getInlineOpResult(this, resultNumber) ==
  this - InlineOpResultSize * (resultNumber + 1)

\* Out-of-line results that are counted back from the header itself.
OutOfLineFromHeader(this, resultNumber) ==
  this - OutOfLineOpResultSize * (resultNumber + 1)

\* Operation::getOutOfLineOpResult(resultNumber): an OutOfLineOpResult
\* pointer stepped back from the last inline result by ++resultNumber.
getOutOfLineOpResult(this, resultNumber) ==
  getInlineOpResult(this, MaxInlineResults - 1)
  - OutOfLineOpResultSize * (resultNumber + 1)

\* Operation::getOpResultImpl(resultNumber), past its assertion: the path
\* taken, the pointer returned and the size of the object it points to.
getOpResultImpl(this, resultNumber) ==
  IF resultNumber < MaxInlineResults
  THEN [path |-> "inline", addr |-> getInlineOpResult(this, resultNumber),
        size |-> InlineOpResultSize]
  ELSE [path |-> "outOfLine",
        addr |-> getOutOfLineOpResult(this,
                                      resultNumber - MaxInlineResults),
        size |-> OutOfLineOpResultSize]

NoResultImpl == [op |-> 0, index |-> 0, path |-> "none", addr |-> 0,
                 size |-> 0]

\* The values of the IR: owner 0 holds the values defined outside every
\* operation created here, owner k > 0 the results of irOps[k].
ExternalValues == {[owner |-> 0, index |-> k] : k \in 1..2}
OpResults(ops) ==
  UNION {{[owner |-> k, index |-> i] : i \in 0..(ops[k].numResults - 1)} :
         k \in DOMAIN ops}
AvailableValues(ops) == ExternalValues \cup OpResults(ops)

\* The sequences over S of length at most n.
SeqsUpTo(S, n) == UNION {[1..m -> S] : m \in 0..n}

\* The blocks no operation occupies.
FreeBlocks(ops) == HeapBlocks \ {ops[k].rawMem : k \in DOMAIN ops}

\* malloc: the lowest free block.
Malloc(ops) ==
  CHOOSE b \in FreeBlocks(ops) : \A c \in FreeBlocks(ops) : b <= c

\* Operation::create(..., resultTypes, operands, ...): one block holds the
\* results, then the header, and the Operation is constructed past the
\* prefix.
CreatedOperation(ops, numResults, operands) ==
  [rawMem |-> Malloc(ops),
   this |-> Malloc(ops) + prefixAllocSize(numResults),
   numResults |-> numResults,
   operands |-> operands]

\* Operation::create.
CreateOperation(numResults, operands) ==
  /\ fatal = NoFatal
  /\ FreeBlocks(irOps) # {}
  /\ irOps' = Append(irOps, CreatedOperation(irOps, numResults, operands))
  /\ UNCHANGED <<uniquerVars, typeIDVars, threadVars, actionVars,
                 inFlightVars, opAttrVars, lastResultImpl, lastClone, ndebug, loadVars, last, fatal,
                 multiThreadedExecutionContext, regVars, strVars, kindVars>>

\* Operation::getResult(idx), that is getOpResultImpl(idx): the assertion on
\* the result number ends a debug build; a release build computes the
\* pointer whatever the number.
GetOpResultImpl(op, resultNumber) ==
  /\ fatal = NoFatal
  /\ op \in DOMAIN irOps
  /\ IF ~ndebug /\ ~(resultNumber < irOps[op].numResults)
     THEN /\ fatal' = [kind |-> "AssertResultNumber", t |-> "t1",
                       ns |-> <<>>]
          /\ UNCHANGED lastResultImpl
     ELSE /\ lastResultImpl' =
               [op |-> op, index |-> resultNumber,
                path |-> getOpResultImpl(irOps[op].this, resultNumber).path,
                addr |-> getOpResultImpl(irOps[op].this, resultNumber).addr,
                size |-> getOpResultImpl(irOps[op].this, resultNumber).size]
          /\ UNCHANGED fatal
  /\ UNCHANGED <<uniquerVars, typeIDVars, threadVars, actionVars,
                 inFlightVars, opAttrVars, irOps, lastClone, ndebug, loadVars, last,
                 multiThreadedExecutionContext, regVars, strVars, kindVars>>

\* ------------------------------------------------------------------------
\* Operation::clone
\* ------------------------------------------------------------------------

\* The value mappers a caller hands to clone: maps from some of the external
\* values to external values.
Mappers == UNION {[D -> ExternalValues] : D \in SUBSET ExternalValues}

\* A lookup that ignores the mapper.
LookupIgnoringMapper(mapper, v) == v

\* IRMapping::lookupOrDefault(value): the mapped value, or the value itself
\* when the mapper has no entry for it.
lookupOrDefault(mapper, v) == IF v \in DOMAIN mapper THEN mapper[v] ELSE v

\* IRMapping::map(from, to) for each result of the original operation.
MapResults(mapper, from, to, numResults) ==
  [v \in DOMAIN mapper \cup
         {[owner |-> from, index |-> i] : i \in 0..(numResults - 1)} |->
     IF v.owner = from
     THEN [owner |-> to, index |-> v.index]
     ELSE mapper[v]]

CloneOptions == [cloneRegions : BOOLEAN, cloneOperands : BOOLEAN]

\* The operands clone hands to Operation::create: each operand of the
\* original looked up in the mapper, or none when operands are not cloned.
ClonedOperands(operands, mapper, options) ==
  IF options.cloneOperands
  THEN [k \in DOMAIN operands |-> lookupOrDefault(mapper, operands[k])]
  ELSE <<>>

NoClone == [orig |-> 0, clone |-> 0, mapper |-> <<>>, mapperAfter |-> <<>>,
            options |-> [cloneRegions |-> FALSE, cloneOperands |-> FALSE]]

\* Operation::clone(mapper, options) of an operation without regions.
Clone(op, mapper, options) ==
  /\ fatal = NoFatal
  /\ op \in DOMAIN irOps
  /\ FreeBlocks(irOps) # {}
  /\ irOps' = Append(irOps,
                     CreatedOperation(irOps, irOps[op].numResults,
                                      ClonedOperands(irOps[op].operands,
                                                     mapper, options)))
  /\ lastClone' = [orig |-> op, clone |-> Len(irOps) + 1, mapper |-> mapper,
                   mapperAfter |-> MapResults(mapper, op, Len(irOps) + 1,
                                              irOps[op].numResults),
                   options |-> options]
  /\ UNCHANGED <<uniquerVars, typeIDVars, threadVars, actionVars,
                 inFlightVars, opAttrVars, lastResultImpl, ndebug, loadVars, last, fatal,
                 multiThreadedExecutionContext, regVars, strVars, kindVars>>

\* ------------------------------------------------------------------------
\* Operation: the properties size kept in the header
\* ------------------------------------------------------------------------

\* The width in bits of the bit-field Operation::propertiesStorageSize.
PropertiesStorageSizeBits == 8

\* Operation::propertiesCapacity: the largest properties size accepted.
propertiesCapacity == 8 * 256

\* The value an unsigned bit-field of the given width holds once v is
\* assigned to it: v modulo 2^width.
BitFieldValue(v, width) == v % (2 ^ width)

\* The header field the constructor initializes from its argument
\* propertiesStorageSize: the size divided by 8, rounded up, in 8 bits.
StoredPropertiesStorageSize(fullPropertiesStorageSize) ==
  BitFieldValue((fullPropertiesStorageSize + 7) \div 8,
                PropertiesStorageSizeBits)

\* Operation::getPropertiesStorageSize().
getPropertiesStorageSize(op) == op.propertiesStorageSize * 8

\* The properties sizes an operation is created with: the multiples of 8
\* up to the capacity.
PropertySizes == {8 * k : k \in 0..(propertiesCapacity \div 8)}

\* ------------------------------------------------------------------------
\* Operation: the attributes
\* ------------------------------------------------------------------------

\* The attribute names used, and those the operation's properties hold as
\* inherent attributes.
AttrNames == {"i1", "n1", "n2"}
InherentAttrNames == {"i1"}

\* The attributes; the null Attribute is 0.
AttrValues == {1, 2}
NullAttr == 0

\* The DictionaryAttr values: name -> attribute, no entry being null.
Dictionaries == UNION {[D -> AttrValues] : D \in SUBSET AttrNames}

\* DictionaryAttr::get(name): null when there is no entry.
DictionaryGet(attrs, name) ==
  IF name \in DOMAIN attrs THEN attrs[name] ELSE NullAttr

\* NamedAttrList::erase(name) that erases every entry.
EraseEveryEntry(attributes, name) ==
  [removed |-> DictionaryGet(attributes, name), attributes |-> <<>>]

\* NamedAttrList::erase(name): the erased attribute, or null, and the list
\* without the entry.
NamedAttrListErase(attributes, name) ==
  [removed |-> DictionaryGet(attributes, name),
   attributes |-> [n \in DOMAIN attributes \ {name} |-> attributes[n]]]

\* NamedAttrList::set(name, value): the previous attribute, or null, and
\* the list where name maps to value.
NamedAttrListSet(attributes, name, value) ==
  [previous |-> DictionaryGet(attributes, name),
   attributes |-> [n \in DOMAIN attributes \cup {name} |->
                     IF n = name THEN value ELSE attributes[n]]]

\* No operation has been created.
NoOperation ==
  [exists |-> FALSE, fullPropertiesStorageSize |-> 0,
   propertiesStorageSize |-> 0,
   inherent |-> [n \in InherentAttrNames |-> NullAttr], attrs |-> <<>>]

NoAttrCall ==
  [op |-> "none", name |-> "", ret |-> NullAttr, before |-> NoOperation]

\* Operation::getInherentAttr(name): an engaged optional for the names the
\* properties hold, whose value is null while the attribute is unset.
getInherentAttr(op, name) ==
  IF name \in InherentAttrNames
  THEN [engaged |-> TRUE, value |-> op.inherent[name]]
  ELSE [engaged |-> FALSE, value |-> NullAttr]

\* Operation::setInherentAttr(name, value).
setInherentAttr(op, name, value) ==
  [op EXCEPT !.inherent = [op.inherent EXCEPT ![name] = value]]

\* Operation::getDiscardableAttr(name).
getDiscardableAttr(op, name) == DictionaryGet(op.attrs, name)

\* Operation::getAttr(name).
getAttr(op, name) ==
  IF /\ getPropertiesStorageSize(op) # 0
     /\ getInherentAttr(op, name).engaged
  THEN getInherentAttr(op, name).value
  ELSE DictionaryGet(op.attrs, name)

\* The frame of every action on attrOp.
AttrFrame ==
  UNCHANGED <<uniquerVars, typeIDVars, threadVars, actionVars, irVars,
              inFlightVars, ndebug, loadVars, last, fatal,
              multiThreadedExecutionContext, regVars, strVars, kindVars>>

\* Operation::create(..., attributes, properties, ...) for an operation
\* whose properties take the given size: the constructor fills the header.
CreateWithProperties(fullPropertiesStorageSize, attributes) ==
  /\ fatal = NoFatal
  /\ fullPropertiesStorageSize <= propertiesCapacity
  /\ attrOp' =
       [exists |-> TRUE,
        fullPropertiesStorageSize |-> fullPropertiesStorageSize,
        propertiesStorageSize |->
          StoredPropertiesStorageSize(fullPropertiesStorageSize),
        inherent |-> [n \in InherentAttrNames |-> NullAttr],
        attrs |-> attributes]
  /\ lastAttrCall' = NoAttrCall
  /\ AttrFrame

\* Operation::setDiscardableAttr(name, value).
SetDiscardableAttr(name, value) ==
  /\ fatal = NoFatal
  /\ attrOp.exists
  /\ attrOp' =
       IF NamedAttrListSet(attrOp.attrs, name, value).previous # value
       THEN [attrOp EXCEPT
               !.attrs = NamedAttrListSet(attrOp.attrs, name,
                                          value).attributes]
       ELSE attrOp
  /\ lastAttrCall' = [op |-> "setDiscardableAttr", name |-> name,
                      ret |-> NullAttr, before |-> attrOp]
  /\ AttrFrame

\* Operation::setAttr(name, value).
SetAttr(name, value) ==
  /\ fatal = NoFatal
  /\ attrOp.exists
  /\ attrOp' =
       IF /\ getPropertiesStorageSize(attrOp) # 0
          /\ getInherentAttr(attrOp, name).engaged
       THEN setInherentAttr(attrOp, name, value)
       ELSE IF NamedAttrListSet(attrOp.attrs, name, value).previous # value
            THEN [attrOp EXCEPT
                    !.attrs = NamedAttrListSet(attrOp.attrs, name,
                                               value).attributes]
            ELSE attrOp
  /\ lastAttrCall' = [op |-> "setAttr", name |-> name, ret |-> NullAttr,
                      before |-> attrOp]
  /\ AttrFrame

\* The operation after the erasure removeDiscardableAttr and removeAttr
\* share: the dictionary is replaced only when an attribute was erased.
EraseFromAttrs(op, name) ==
  IF NamedAttrListErase(op.attrs, name).removed # NullAttr
  THEN [op EXCEPT !.attrs = NamedAttrListErase(op.attrs, name).attributes]
  ELSE op

\* Operation::removeDiscardableAttr(name).
RemoveDiscardableAttr(name) ==
  /\ fatal = NoFatal
  /\ attrOp.exists
  /\ attrOp' = EraseFromAttrs(attrOp, name)
  /\ lastAttrCall' = [op |-> "removeDiscardableAttr", name |-> name,
                      ret |-> NamedAttrListErase(attrOp.attrs,
                                                 name).removed,
                      before |-> attrOp]
  /\ AttrFrame

\* Operation::removeAttr(name).
RemoveAttr(name) ==
  /\ fatal = NoFatal
  /\ attrOp.exists
  /\ IF /\ getPropertiesStorageSize(attrOp) # 0
        /\ getInherentAttr(attrOp, name).engaged
     THEN /\ attrOp' = setInherentAttr(attrOp, name, NullAttr)
          /\ lastAttrCall' = [op |-> "removeAttr", name |-> name,
                              ret |-> getInherentAttr(attrOp, name).value,
                              before |-> attrOp]
     ELSE /\ attrOp' = EraseFromAttrs(attrOp, name)
          /\ lastAttrCall' = [op |-> "removeAttr", name |-> name,
                              ret |-> NamedAttrListErase(attrOp.attrs,
                                                         name).removed,
                              before |-> attrOp]
  /\ AttrFrame

\* ------------------------------------------------------------------------
\* Initial state: a context built from an empty registry
\* ------------------------------------------------------------------------

\* The state after MLIRContext(DialectRegistry(), setting), in a build with
\* or without threads and with the option mlir-disable-threading as given.
ContextConstructed(setting, threads, flag) ==
  /\ llvmEnableThreads = threads
  /\ disableThreading = flag
  /\ threadingIsEnabled = (/\ setting = "ENABLED"
                           /\ ~isThreadingGloballyDisabled(threads, flag))
  /\ ownedThreadPool = (IF threadingIsEnabled THEN OwnedPoolAddress ELSE 0)
  /\ threadPool = ownedThreadPool
  /\ destroyedPools = {}
  /\ actionHandler = "none"
  /\ actionLog = <<>>
  /\ irOps = <<>>
  /\ lastResultImpl = NoResultImpl
  /\ lastClone = NoClone
  /\ attrOp = NoOperation
  /\ lastAttrCall = NoAttrCall
  /\ strAttrInFlight = [t \in Threads |-> <<>>]
  /\ opNamePending = [t \in Threads |-> <<>>]
  /\ ndebug \in BOOLEAN
  /\ loadedDialects = [ns \in {BuiltinNamespace} |-> BuiltinDialect]
  /\ dialectObjs = <<[typeID |-> BuiltinTypeID, ns |-> BuiltinNamespace]>>
  /\ stack = [t \in Threads |-> <<>>]
  /\ returned = [ns \in Namespaces |-> {}]
  /\ last = NoCall
  /\ fatal = NoFatal
  /\ multiThreadedExecutionContext = 0
  /\ dialectsRegistry = EmptyRegistry
  /\ userRegistry = EmptyRegistry
  /\ applyLog = <<>>
  /\ strAttrStorages = <<>>
  /\ dialectReferencingStrAttrs = <<>>
  /\ registeredTypes = <<>>
  /\ nameToType = <<>>
  /\ registeredAttributes = <<>>
  /\ nameToAttribute = <<>>
  /\ opImpls = <<>>
  /\ operations = <<>>
  /\ registeredOperations = <<>>
  /\ registeredOperationsByName = <<>>
  /\ sortedRegisteredOperations = <<>>
  /\ operationNames = <<>>
  /\ uniquerThreading = TRUE
  /\ uniquerStorages = <<>>
  /\ uniquerInstances = {}
  /\ uniquerWriter = "none"
  /\ uniquerPending = [t \in Threads |-> NoKey]
  /\ uniquerReturned = [v \in AffineMapKeyValues |-> {}]
  /\ TypeIDInit

\* A context built with threading enabled, in a build with threads, before
\* any command line is parsed.
Init == ContextConstructed("ENABLED", TRUE, FALSE)

\* A context built with either setting, in either build, with the option
\* set or not.
InitThreading ==
  \E setting \in ThreadingSettings, threads \in BOOLEAN, flag \in BOOLEAN :
    ContextConstructed(setting, threads, flag)

\* ------------------------------------------------------------------------
\* MLIRContext::getOrLoadDialect(namespace, TypeID, ctor)
\* ------------------------------------------------------------------------

\* The call up to the point where it either ends or invokes ctor().
GetOrLoadDialectCall(t, ns, id) ==
  IF TryEmplaceInserted(loadedDialects, ns)
  THEN \* try_emplace inserted the nullptr placeholder
       /\ loadedDialects' = TryEmplaceNull(loadedDialects, ns)
       /\ IF InMultiThreadedExecution
          THEN /\ fatal' = [kind |-> "LoadInMultiThreaded", t |-> t, ns |-> ns]
               /\ UNCHANGED <<dialectObjs, stack, returned, last>>
          ELSE \* ctor() starts: the dialect object is allocated
               /\ dialectObjs' = Append(dialectObjs, [typeID |-> id, ns |-> ns])
               /\ stack' = [stack EXCEPT ![t] =
                              Append(@, [ns |-> ns, id |-> id,
                                         obj |-> Len(dialectObjs) + 1,
                                         slot |-> Slot(loadedDialects',
                                                       ns)])]
               /\ UNCHANGED <<returned, last, fatal>>
  ELSE IF loadedDialects[ns] = 0
  THEN \* the entry is the placeholder of a load in progress
       IF ~ndebug
       THEN /\ fatal' = [kind |-> "StillLoading", t |-> t, ns |-> ns]
            /\ UNCHANGED <<loadedDialects, dialectObjs, stack, returned,
                           last>>
       ELSE \* dialect->getTypeID() on a null unique_ptr is undefined: the
            \* read traps, or yields a TypeID that differs from the one
            \* asked for, or one that equals it and the null pointer is
            \* returned
            \/ /\ fatal' = [kind |-> "NullDeref", t |-> t, ns |-> ns]
               /\ UNCHANGED <<loadedDialects, dialectObjs, stack, returned,
                              last>>
            \/ /\ fatal' = [kind |-> "TypeIDMismatch", t |-> t, ns |-> ns]
               /\ UNCHANGED <<loadedDialects, dialectObjs, stack, returned,
                              last>>
            \/ /\ returned' = [returned EXCEPT ![ns] = @ \cup {0}]
               /\ last' = [t |-> t, op |-> "getOrLoadDialect", ns |-> ns,
                           ret |-> 0, ctor |-> FALSE]
               /\ UNCHANGED <<loadedDialects, dialectObjs, stack, fatal>>
  ELSE IF ~TypeIDMatches(loadedDialects[ns], id)
  THEN /\ fatal' = [kind |-> "TypeIDMismatch", t |-> t, ns |-> ns]
       /\ UNCHANGED <<loadedDialects, dialectObjs, stack, returned, last>>
  ELSE /\ returned' = [returned EXCEPT ![ns] = @ \cup {loadedDialects[ns]}]
       /\ last' = [t |-> t, op |-> "getOrLoadDialect", ns |-> ns,
                   ret |-> loadedDialects[ns], ctor |-> FALSE]
       /\ UNCHANGED <<loadedDialects, dialectObjs, stack, fatal>>

\* getOrLoadDialect<T>() called by thread t, at top level or from inside a
\* dialect constructor that t is running.
GetOrLoadDialect(t, T) ==
  /\ fatal = NoFatal
  /\ GetOrLoadDialectCall(t, getDialectNamespace(T), DialectTypeID(T))
  /\ UNCHANGED <<uniquerVars, typeIDVars, facilityVars, ndebug,
                 multiThreadedExecutionContext, regVars,
                 strVars, kindVars>>

\* ctor() returns to getOrLoadDialect, which stores the dialect, applies the
\* extensions of the context's registry to it and returns it.
CtorReturn(t) ==
  /\ fatal = NoFatal
  /\ stack[t] # <<>>
  /\ LET f == Top(stack[t]) IN
       /\ loadedDialects' =
            StoreAtSlot(loadedDialects, FinalStoreSlot(loadedDialects, f),
                        f.obj)
       /\ applyLog' = applyLog \o
            ApplyExtensionsToDialect(dialectsRegistry.extensions,
                                     loadedDialects', f.ns, f.obj)
       /\ strAttrStorages' =
            RefreshIdentifiers(strAttrStorages, dialectReferencingStrAttrs,
                               f.ns, f.obj)
       /\ dialectReferencingStrAttrs' =
            EraseKey(dialectReferencingStrAttrs, f.ns)
       /\ returned' = [returned EXCEPT ![f.ns] = @ \cup {f.obj}]
       /\ last' = [t |-> t, op |-> "getOrLoadDialect", ns |-> f.ns,
                   ret |-> f.obj,
                   ctor |-> TRUE]
       /\ stack' = [stack EXCEPT ![t] = Pop(@)]
  /\ UNCHANGED <<uniquerVars, typeIDVars, facilityVars, ndebug,
                 dialectObjs, fatal, multiThreadedExecutionContext,
                 dialectsRegistry, userRegistry, kindVars>>

\* MLIRContext::loadDialect<T>().
LoadDialect(t, T) ==
  /\ fatal = NoFatal
  /\ IF ~isDialectLoading(getDialectNamespace(T))
     THEN GetOrLoadDialectCall(t, getDialectNamespace(T), DialectTypeID(T))
     ELSE /\ last' = [t |-> t, op |-> "loadDialect",
                      ns |-> getDialectNamespace(T), ret |-> 0,
                      ctor |-> FALSE]
          /\ UNCHANGED <<loadedDialects, dialectObjs, stack, returned, fatal>>
  /\ UNCHANGED <<uniquerVars, typeIDVars, facilityVars, ndebug,
                 multiThreadedExecutionContext, regVars,
                 strVars, kindVars>>

\* MLIRContext::getOrLoadDialect(StringRef name): the loaded dialect, or a
\* load through the allocator of the context's registry, or nullptr.
GetOrLoadDialectByName(t, ns) ==
  /\ fatal = NoFatal
  /\ IF getLoadedDialect(ns) # 0
     THEN /\ last' = [t |-> t, op |-> "getOrLoadDialectByName", ns |-> ns,
                      ret |-> getLoadedDialect(ns),
                      ctor |-> FALSE]
          /\ UNCHANGED <<loadedDialects, dialectObjs, stack, returned, fatal>>
     ELSE IF getDialectAllocator(dialectsRegistry, ns) = "none"
     THEN /\ last' = [t |-> t, op |-> "getOrLoadDialectByName", ns |-> ns,
                      ret |-> 0,
                      ctor |-> FALSE]
          /\ UNCHANGED <<loadedDialects, dialectObjs, stack, returned, fatal>>
     ELSE LET T == getDialectAllocator(dialectsRegistry, ns) IN
          GetOrLoadDialectCall(t, getDialectNamespace(T), DialectTypeID(T))
  /\ UNCHANGED <<uniquerVars, typeIDVars, facilityVars, ndebug,
                 multiThreadedExecutionContext, regVars,
                 strVars, kindVars>>

\* MLIRContext::getLoadedDialect(StringRef name), called by a client.
GetLoadedDialectByName(t, ns) ==
  /\ fatal = NoFatal
  /\ last' = [t |-> t, op |-> "getLoadedDialect", ns |-> ns,
              ret |-> getLoadedDialect(ns), ctor |-> FALSE]
  /\ UNCHANGED <<uniquerVars, typeIDVars, facilityVars, ndebug, loadVars,
                 fatal, multiThreadedExecutionContext, regVars, strVars,
                 kindVars>>

\* A lookup that finds an object under every key.
NameLookupFindsAny(tbl, name) == 40

\* DenseMap::lookup(name) on nameToType or nameToAttribute: the object
\* registered under the name, or nullptr; nothing is inserted.
NameLookup(tbl, name) == IF name \in DOMAIN tbl THEN tbl[name] ELSE 0

\* The names clients look up: a.t names a type kind, a.s an attribute kind.
LookupNames == {<<"a", ".", "t">>, <<"a", ".", "s">>}

\* AbstractType::lookup(name, context): the type, or 0 for std::nullopt.
AbstractTypeLookup(t, name) ==
  /\ fatal = NoFatal
  /\ last' = [t |-> t, op |-> "AbstractType::lookup", ns |-> name,
              ret |-> NameLookup(nameToType, name), ctor |-> FALSE]
  /\ UNCHANGED <<uniquerVars, typeIDVars, facilityVars, ndebug, loadVars,
                 fatal, multiThreadedExecutionContext, regVars, strVars,
                 kindVars>>

\* AbstractAttribute::lookup(name, context): the attribute, or 0 for
\* std::nullopt.
AbstractAttributeLookup(t, name) ==
  /\ fatal = NoFatal
  /\ last' = [t |-> t, op |-> "AbstractAttribute::lookup", ns |-> name,
              ret |-> NameLookup(nameToAttribute, name), ctor |-> FALSE]
  /\ UNCHANGED <<uniquerVars, typeIDVars, facilityVars, ndebug, loadVars,
                 fatal, multiThreadedExecutionContext, regVars, strVars,
                 kindVars>>

\* ------------------------------------------------------------------------
\* Registries of the client and of the context
\* ------------------------------------------------------------------------

\* userRegistry.insert<T>().
UserRegistryInsert(T) ==
  /\ fatal = NoFatal
  /\ userRegistry' = RegistryInsert(userRegistry, DialectTypeID(T),
                                    getDialectNamespace(T), T)
  /\ userRegistry' # userRegistry
  /\ UNCHANGED <<uniquerVars, typeIDVars, facilityVars, ndebug,
                 loadVars, last, fatal, multiThreadedExecutionContext,
                 dialectsRegistry, applyLog, strVars, kindVars>>

\* userRegistry.addExtension(e, ...).
UserRegistryAddExtension(e) ==
  /\ fatal = NoFatal
  /\ userRegistry' = AddExtension(userRegistry, e)
  /\ userRegistry' # userRegistry
  /\ UNCHANGED <<uniquerVars, typeIDVars, facilityVars, ndebug,
                 loadVars, last, fatal, multiThreadedExecutionContext,
                 dialectsRegistry, applyLog, strVars, kindVars>>

\* The client goes on with a registry it has just constructed:
\* DialectRegistry().
NewUserRegistry ==
  /\ fatal = NoFatal
  /\ userRegistry # EmptyRegistry
  /\ userRegistry' = EmptyRegistry
  /\ UNCHANGED <<uniquerVars, typeIDVars, facilityVars, ndebug,
                 loadVars, last, fatal, multiThreadedExecutionContext,
                 dialectsRegistry, applyLog, strVars, kindVars>>

\* userRegistry.appendTo(userRegistry).
UserRegistryAppendToSelf(t) ==
  /\ fatal = NoFatal
  /\ userRegistry' = AppendTo(userRegistry, userRegistry)
  /\ last' = [t |-> t, op |-> "appendTo", ns |-> <<>>, ret |-> 0,
              ctor |-> FALSE]
  /\ UNCHANGED <<uniquerVars, typeIDVars, facilityVars, ndebug,
                 loadVars, fatal, multiThreadedExecutionContext,
                 dialectsRegistry, applyLog, strVars, kindVars>>

\* An appendDialectRegistry that never returns early.
AppendNeverRedundant(reg, ctxReg) == FALSE

\* Whether appendDialectRegistry returns before doing anything.
AppendIsRedundant(reg, ctxReg) == IsSubsetOf(reg, ctxReg)

\* MLIRContext::appendDialectRegistry(userRegistry).  The result recorded is
\* 1 when the call returned early and 0 when it merged the registry.
AppendDialectRegistry(t) ==
  /\ fatal = NoFatal
  /\ IF AppendIsRedundant(userRegistry, dialectsRegistry)
     THEN /\ last' = [t |-> t, op |-> "appendDialectRegistry", ns |-> <<>>,
                      ret |-> 1,
                      ctor |-> FALSE]
          /\ UNCHANGED <<dialectsRegistry, applyLog, fatal>>
     ELSE IF InMultiThreadedExecution
     THEN /\ fatal' = [kind |-> "AssertAppendInMultiThreaded", t |-> t,
                       ns |-> <<>>]
          /\ UNCHANGED <<dialectsRegistry, applyLog, last>>
     ELSE IF /\ CallsGetLoadedDialects(userRegistry.extensions)
             /\ GetLoadedDialectsReadsNull(loadedDialects)
     THEN /\ dialectsRegistry' = AppendTo(userRegistry, dialectsRegistry)
          /\ applyLog' = applyLog \o
               ApplyExtensionsToContext(
                 ExtensionsBeforeGetLoaded(userRegistry.extensions),
                 loadedDialects)
          /\ fatal' = [kind |-> "NullDeref", t |-> t, ns |-> <<>>]
          /\ UNCHANGED last
     ELSE /\ dialectsRegistry' = AppendTo(userRegistry, dialectsRegistry)
          /\ applyLog' = applyLog \o
               ApplyExtensionsToContext(userRegistry.extensions,
                                        loadedDialects)
          /\ last' = [t |-> t, op |-> "appendDialectRegistry", ns |-> <<>>,
                      ret |-> 0,
                      ctor |-> FALSE]
          /\ UNCHANGED fatal
  /\ UNCHANGED <<uniquerVars, typeIDVars, facilityVars, ndebug,
                 loadVars, multiThreadedExecutionContext,
                 userRegistry, strVars, kindVars>>

\* ------------------------------------------------------------------------
\* Registration of type, attribute and operation kinds
\* ------------------------------------------------------------------------

\* The type kinds dialect a registers from its constructor.  T2 carries the
\* name of T1 under another TypeID.
TypeKinds == {"T1", "T2"}
TypeKindID(k) == IF k = "T1" THEN 40 ELSE 48
TypeKindName(k) == <<"a", ".", "t">>

\* The attribute kinds dialect a registers from its constructor.
AttrKinds == {"S1"}
AttrKindID(k) == 56
AttrKindName(k) == <<"a", ".", "s">>

\* The operation kinds dialect a registers from its constructor.
OpKinds == {"X", "Y"}
OpKindID(k) == IF k = "X" THEN 64 ELSE 72
OpKindName(k) == IF k = "X" THEN <<"a", ".", "x">> ELSE <<"a", ".", "y">>

\* The names OperationName objects are constructed from.
OpNames == {OpKindName(k) : k \in OpKinds}

\* A thread registers kinds of dialect a while it runs the constructor of a
\* dialect of namespace a.
InConstructorOfA(t) == stack[t] # <<>> /\ Top(stack[t]).ns = <<"a">>

\* Dialect::addType(typeID, typeInfo).
AddType(t, k) ==
  /\ fatal = NoFatal
  /\ InConstructorOfA(t)
  /\ IF InMultiThreadedExecution
     THEN /\ fatal' = [kind |-> "AssertAddTypeInMultiThreaded", t |-> t,
                       ns |-> TypeKindName(k)]
          /\ UNCHANGED typeVars
     ELSE IF TypeKindID(k) \in DOMAIN registeredTypes
     THEN /\ fatal' = [kind |-> "TypeAlreadyRegistered", t |-> t,
                       ns |-> TypeKindName(k)]
          /\ UNCHANGED typeVars
     ELSE /\ registeredTypes' =
               PutKey(registeredTypes, TypeKindID(k), TypeKindName(k))
          /\ IF TypeKindName(k) \in DOMAIN nameToType
             THEN /\ fatal' = [kind |-> "TypeNameAlreadyRegistered",
                               t |-> t, ns |-> TypeKindName(k)]
                  /\ UNCHANGED nameToType
             ELSE /\ nameToType' =
                       PutKey(nameToType, TypeKindName(k), TypeKindID(k))
                  /\ UNCHANGED fatal
  /\ UNCHANGED <<uniquerVars, typeIDVars, facilityVars, ndebug,
                 loadVars, last, multiThreadedExecutionContext,
                 regVars, strVars, attrVars, opVars>>

\* Dialect::addAttribute(typeID, attrInfo).
AddAttribute(t, k) ==
  /\ fatal = NoFatal
  /\ InConstructorOfA(t)
  /\ IF InMultiThreadedExecution
     THEN /\ fatal' = [kind |-> "AssertAddAttributeInMultiThreaded",
                       t |-> t, ns |-> AttrKindName(k)]
          /\ UNCHANGED attrVars
     ELSE IF AttrKindID(k) \in DOMAIN registeredAttributes
     THEN /\ fatal' = [kind |-> "AttributeAlreadyRegistered", t |-> t,
                       ns |-> AttrKindName(k)]
          /\ UNCHANGED attrVars
     ELSE /\ registeredAttributes' =
               PutKey(registeredAttributes, AttrKindID(k), AttrKindName(k))
          /\ IF AttrKindName(k) \in DOMAIN nameToAttribute
             THEN /\ fatal' = [kind |-> "AttributeNameAlreadyRegistered",
                               t |-> t, ns |-> AttrKindName(k)]
                  /\ UNCHANGED nameToAttribute
             ELSE /\ nameToAttribute' =
                       PutKey(nameToAttribute, AttrKindName(k),
                              AttrKindID(k))
                  /\ UNCHANGED fatal
  /\ UNCHANGED <<uniquerVars, typeIDVars, facilityVars, ndebug,
                 loadVars, last, multiThreadedExecutionContext,
                 regVars, strVars, typeVars, opVars>>

\* The comparator insert hands to llvm::upper_bound: the int result of
\* StringRef::compare converted to bool.
SortedOpsComp(impls, lhs, rhs) ==
  StrCompare(impls[lhs].name, impls[rhs].name) # 0

\* std::upper_bound over seq[first + 1 .. first + count] (first counts the
\* elements before the range): the number of elements before the position
\* found.
RECURSIVE UpperBound(_, _, _, _, _)
UpperBound(impls, seq, first, count, value) ==
  IF count = 0 THEN first
  ELSE LET step == count \div 2
           it == first + step
       IN IF ~SortedOpsComp(impls, value, seq[it + 1])
          THEN UpperBound(impls, seq, it + 1, count - step - 1, value)
          ELSE UpperBound(impls, seq, first, step, value)

\* SmallVector::insert(position, value), position given as the number of
\* elements before it.
InsertAt(seq, pos, value) ==
  SubSeq(seq, 1, pos) \o <<value>> \o SubSeq(seq, pos + 1, Len(seq))

\* RegisteredOperationName::insert(ownedImpl, attrNames) on an Impl built by
\* OperationName::Impl::Impl(name, dialect, typeID, interfaceMap), which
\* interns the name first.  attrNames is empty.
InsertOperation(t, k) ==
  /\ fatal = NoFatal
  /\ InConstructorOfA(t)
  /\ Len(opImpls) < MaxImpls
  /\ LET name == OpKindName(k)
         str == StringAttrGet(name, strAttrStorages,
                              dialectReferencingStrAttrs, loadedDialects)
         impl == Len(opImpls) + 1
         newImpls == Append(opImpls, [name |-> name, typeID |-> OpKindID(k),
                                      dialect |-> Top(stack[t]).obj])
         emplaced == OpKindID(k) \notin DOMAIN registeredOperations
         emplacedByName == name \notin DOMAIN registeredOperationsByName
         byTypeID == IF emplaced
                     THEN PutKey(registeredOperations, OpKindID(k), impl)
                     ELSE registeredOperations
         value == byTypeID[OpKindID(k)]
     IN
     /\ strAttrStorages' = str.storages
     /\ dialectReferencingStrAttrs' = str.pending
     /\ opImpls' = newImpls
     /\ IF InMultiThreadedExecution
        THEN /\ fatal' = [kind |-> "AssertInsertOperationInMultiThreaded",
                          t |-> t, ns |-> name]
             /\ UNCHANGED <<operations, registeredOperations,
                            registeredOperationsByName,
                            sortedRegisteredOperations>>
        ELSE /\ operations' = PutKey(operations, name, impl)
             /\ IF ~ndebug /\ ~emplaced
                THEN /\ fatal' = [kind |-> "AssertOperationRegistration",
                                  t |-> t, ns |-> name]
                     /\ UNCHANGED <<registeredOperations,
                                    registeredOperationsByName,
                                    sortedRegisteredOperations>>
                ELSE /\ registeredOperations' = byTypeID
                     /\ registeredOperationsByName' =
                          IF emplacedByName
                          THEN PutKey(registeredOperationsByName, name, impl)
                          ELSE registeredOperationsByName
                     /\ IF ~ndebug /\ ~emplacedByName
                        THEN /\ fatal' =
                                  [kind |-> "AssertOperationRegistration",
                                   t |-> t, ns |-> name]
                             /\ UNCHANGED sortedRegisteredOperations
                        ELSE /\ sortedRegisteredOperations' =
                                  InsertAt(sortedRegisteredOperations,
                                           UpperBound(newImpls,
                                             sortedRegisteredOperations, 0,
                                             Len(sortedRegisteredOperations),
                                             value),
                                           value)
                             /\ UNCHANGED fatal
  /\ UNCHANGED <<uniquerVars, typeIDVars, facilityVars, ndebug,
                 loadVars, last, multiThreadedExecutionContext,
                 regVars, typeVars, attrVars, operationNames>>

\* TypeID::get<void>(), the TypeID of an unregistered operation's Impl.
VoidTypeID == 80

\* An insert that always reports a new entry.
OperationAlwaysInserted(ops, name) == TRUE

\* operations.insert({name, nullptr}).second: the name had no entry.
OperationInserted(ops, name) == name \notin DOMAIN ops

\* OperationName::OperationName(name, context): with multithreading the
\* registered names are consulted first, then the operations map; without
\* an entry an UnregisteredOpModel is made for the name and inserted.
OperationNameConstruct(t, name) ==
  /\ fatal = NoFatal
  /\ LET registered == /\ isMultithreadingEnabled
                        /\ name \in DOMAIN registeredOperationsByName
         inserted == ~registered /\ OperationInserted(operations, name)
         str == StringAttrGet(name, strAttrStorages,
                              dialectReferencingStrAttrs, loadedDialects)
         impl == IF registered THEN registeredOperationsByName[name]
                 ELSE IF inserted THEN Len(opImpls) + 1
                 ELSE operations[name]
     IN /\ inserted => Len(opImpls) < MaxImpls
        /\ IF inserted
           THEN /\ strAttrStorages' = str.storages
                /\ dialectReferencingStrAttrs' = str.pending
                /\ opImpls' = Append(opImpls,
                                     [name |-> name, typeID |-> VoidTypeID,
                                      dialect |-> str.storages[name]])
                /\ operations' = PutKey(operations, name, impl)
           ELSE UNCHANGED <<strVars, opImpls, operations>>
        /\ operationNames' =
             PutKey(operationNames, name,
                    IF name \in DOMAIN operationNames
                    THEN operationNames[name] \cup {impl} ELSE {impl})
        /\ last' = [t |-> t, op |-> "OperationName", ns |-> name,
                    ret |-> impl, ctor |-> FALSE]
  /\ UNCHANGED <<uniquerVars, typeIDVars, facilityVars, ndebug, loadVars,
                 fatal, multiThreadedExecutionContext, regVars, typeVars,
                 attrVars, registeredOperations, registeredOperationsByName,
                 sortedRegisteredOperations>>

\* ------------------------------------------------------------------------
\* The multi-threaded execution counter (debug builds only)
\* ------------------------------------------------------------------------

\* MLIRContext::enterMultiThreadedExecution().
EnterMultiThreadedExecution ==
  /\ fatal = NoFatal
  /\ ~ndebug
  /\ multiThreadedExecutionContext < MaxMTDepth
  /\ multiThreadedExecutionContext' = multiThreadedExecutionContext + 1
  /\ UNCHANGED <<uniquerVars, typeIDVars, facilityVars, ndebug,
                 loadVars, last, fatal, regVars, strVars, kindVars>>

\* MLIRContext::exitMultiThreadedExecution().
ExitMultiThreadedExecution ==
  /\ fatal = NoFatal
  /\ ~ndebug
  /\ multiThreadedExecutionContext > 0
  /\ multiThreadedExecutionContext' = multiThreadedExecutionContext - 1
  /\ UNCHANGED <<uniquerVars, typeIDVars, facilityVars, ndebug,
                 loadVars, last, fatal, regVars, strVars, kindVars>>

\* ------------------------------------------------------------------------
\* StringAttr::get and StringAttrStorage::initialize as calls
\* ------------------------------------------------------------------------

\* The values StringAttrs are built from: two with the namespace a and a
\* suffix, one with the namespace b, one with an empty suffix, one without
\* a dot.
StrValues == {<<"a", ".", "x">>, <<"a", ".", "y">>, <<"b", ".", "x">>,
              <<"a", ".">>, <<"x">>}

\* The value names a dialect: both parts of the split are non-empty.
HasDialectPrefix(v) == SplitDot(v).first # <<>> /\ SplitDot(v).second # <<>>

\* StringAttr::get(context, v) by a thread that is alone in using the
\* context: the storage is looked up, or built and initialized.
StringAttrGetCall(t, v) ==
  /\ fatal = NoFatal
  /\ LET str == StringAttrGet(v, strAttrStorages,
                              dialectReferencingStrAttrs, loadedDialects)
     IN /\ strAttrStorages' = str.storages
        /\ dialectReferencingStrAttrs' = str.pending
        /\ last' = [t |-> t, op |-> "StringAttr::get", ns |-> v,
                    ret |-> str.storages[v], ctor |-> FALSE]
  /\ UNCHANGED <<uniquerVars, typeIDVars, facilityVars, ndebug, loadVars,
                 fatal, multiThreadedExecutionContext, regVars, kindVars>>

\* StringAttr::get(context, v) for a value that has no storage yet, up to
\* the point where initialize() has read getLoadedDialect(prefix): the
\* storage exists with the dialect read; when none was read and the value
\* names a dialect, the thread goes on to take dialectRefStrAttrMutex.
StringAttrInitializeRead(t, v) ==
  /\ fatal = NoFatal
  /\ strAttrInFlight[t] = <<>>
  /\ v \notin DOMAIN strAttrStorages
  /\ strAttrStorages' =
       PutKey(strAttrStorages, v,
              IF HasDialectPrefix(v)
              THEN LookupDialect(loadedDialects, SplitDot(v).first)
              ELSE 0)
  /\ strAttrInFlight' =
       [strAttrInFlight EXCEPT ![t] =
          IF /\ HasDialectPrefix(v)
             /\ LookupDialect(loadedDialects, SplitDot(v).first) = 0
          THEN v ELSE <<>>]
  /\ UNCHANGED <<uniquerVars, typeIDVars, threadVars, actionVars, irVars, opAttrVars,
                 opNamePending, dialectReferencingStrAttrs, ndebug, loadVars, last, fatal,
                 multiThreadedExecutionContext, regVars, kindVars>>

\* The rest of initialize(): under dialectRefStrAttrMutex the storage is
\* appended to the identifiers that await the dialect.
StringAttrInitializeRecord(t) ==
  /\ fatal = NoFatal
  /\ strAttrInFlight[t] # <<>>
  /\ dialectReferencingStrAttrs' =
       PushPending(dialectReferencingStrAttrs,
                   SplitDot(strAttrInFlight[t]).first, strAttrInFlight[t])
  /\ strAttrInFlight' = [strAttrInFlight EXCEPT ![t] = <<>>]
  /\ last' = [t |-> t, op |-> "StringAttr::get", ns |-> strAttrInFlight[t],
              ret |-> strAttrStorages[strAttrInFlight[t]], ctor |-> FALSE]
  /\ UNCHANGED <<uniquerVars, typeIDVars, threadVars, actionVars, irVars, opAttrVars,
                 opNamePending, strAttrStorages, ndebug, loadVars, fatal,
                 multiThreadedExecutionContext, regVars, kindVars>>

\* ------------------------------------------------------------------------
\* OperationName::OperationName with multithreading enabled, step by step
\* ------------------------------------------------------------------------

\* The OperationName constructed holds impl.
OperationNameReturn(t, name, impl, op, made) ==
  /\ operationNames' =
       PutKey(operationNames, name,
              IF name \in DOMAIN operationNames
              THEN operationNames[name] \cup {impl} ELSE {impl})
  /\ last' = [t |-> t, op |-> op, ns |-> name, ret |-> impl, ctor |-> made]

\* The constructor up to the end of its reader section: the registered
\* names are consulted without a lock, then the operations map under the
\* reader lock; a name found in neither sends the thread to the writer
\* lock.
OperationNameFind(t, name) ==
  /\ fatal = NoFatal
  /\ isMultithreadingEnabled
  /\ opNamePending[t] = <<>>
  /\ IF name \in DOMAIN registeredOperationsByName
     THEN /\ OperationNameReturn(t, name, registeredOperationsByName[name],
                                 "OperationName", FALSE)
          /\ UNCHANGED opNamePending
     ELSE IF name \in DOMAIN operations
     THEN /\ OperationNameReturn(t, name, operations[name],
                                 "OperationName", FALSE)
          /\ UNCHANGED opNamePending
     ELSE /\ opNamePending' = [opNamePending EXCEPT ![t] = name]
          /\ UNCHANGED <<operationNames, last>>
  /\ UNCHANGED <<uniquerVars, typeIDVars, threadVars, actionVars, irVars, opAttrVars,
                 strAttrInFlight, ndebug, loadVars, fatal,
                 multiThreadedExecutionContext, regVars, strVars, typeVars,
                 attrVars, opImpls, operations, registeredOperations,
                 registeredOperationsByName, sortedRegisteredOperations>>

\* The constructor under the writer lock: the name is inserted; when it had
\* no entry an UnregisteredOpModel is made for it; the entry's Impl is
\* taken.
OperationNameInsert(t) ==
  /\ fatal = NoFatal
  /\ opNamePending[t] # <<>>
  /\ LET name == opNamePending[t]
         inserted == OperationInserted(operations, name)
         str == StringAttrGet(name, strAttrStorages,
                              dialectReferencingStrAttrs, loadedDialects)
         impl == IF inserted THEN Len(opImpls) + 1 ELSE operations[name]
     IN /\ inserted => Len(opImpls) < MaxImpls
        /\ IF inserted
           THEN /\ strAttrStorages' = str.storages
                /\ dialectReferencingStrAttrs' = str.pending
                /\ opImpls' = Append(opImpls,
                                     [name |-> name, typeID |-> VoidTypeID,
                                      dialect |-> str.storages[name]])
                /\ operations' = PutKey(operations, name, impl)
           ELSE UNCHANGED <<strVars, opImpls, operations>>
        /\ OperationNameReturn(t, name, impl, "OperationNameLocked",
                               inserted)
  /\ opNamePending' = [opNamePending EXCEPT ![t] = <<>>]
  /\ UNCHANGED <<uniquerVars, typeIDVars, threadVars, actionVars, irVars, opAttrVars,
                 strAttrInFlight, ndebug, loadVars, fatal,
                 multiThreadedExecutionContext, regVars, typeVars,
                 attrVars, registeredOperations, registeredOperationsByName,
                 sortedRegisteredOperations>>

\* ------------------------------------------------------------------------
\* MLIRContext::getLoadedDialects
\* ------------------------------------------------------------------------

\* The pointers getLoadedDialects() pushes: dialect.second.get() of every
\* entry of the table.
LoadedDialectPointers(tbl) == {tbl[ns] : ns \in DOMAIN tbl}

\* MLIRContext::getLoadedDialects() called by thread t, at top level or from
\* inside a constructor: the vector holds one pointer per entry; with a null
\* placeholder among them the sort reads a namespace through a null
\* pointer, which traps or reads garbage and lets the call return.  The
\* call is recorded with the size of the vector and the pointers in it.
GetLoadedDialects(t) ==
  /\ fatal = NoFatal
  /\ LET returns ==
           /\ last' = [t |-> t, op |-> "getLoadedDialects", ns |-> <<>>,
                       ret |-> Cardinality(DOMAIN loadedDialects),
                       ctor |-> FALSE,
                       result |-> LoadedDialectPointers(loadedDialects)]
           /\ UNCHANGED fatal
     IN IF GetLoadedDialectsReadsNull(loadedDialects)
        THEN \/ /\ fatal' = [kind |-> "NullDeref", t |-> t, ns |-> <<>>]
                /\ UNCHANGED last
             \/ returns
        ELSE returns
  /\ UNCHANGED <<uniquerVars, typeIDVars, facilityVars, ndebug, loadVars,
                 multiThreadedExecutionContext, regVars, strVars, kindVars>>

\* ------------------------------------------------------------------------
\* Specifications
\* ------------------------------------------------------------------------

\* Two threads share the context and load dialects.
Next ==
  \/ \E t \in Threads, T \in DialectClasses : GetOrLoadDialect(t, T)
  \/ \E t \in Threads : CtorReturn(t)
  \/ \E t \in Threads, T \in DialectClasses : LoadDialect(t, T)
  \/ EnterMultiThreadedExecution
  \/ ExitMultiThreadedExecution

Spec == Init /\ [][Next]_vars

\* One thread uses the context: loads and the multi-threaded execution
\* counter.
NextSeq ==
  \/ \E T \in DialectClasses : GetOrLoadDialect("t1", T)
  \/ CtorReturn("t1")
  \/ \E T \in DialectClasses : LoadDialect("t1", T)
  \/ \E k \in TypeKinds : AddType("t1", k)
  \/ \E k \in AttrKinds : AddAttribute("t1", k)
  \/ \E k \in OpKinds : InsertOperation("t1", k)
  \/ EnterMultiThreadedExecution
  \/ ExitMultiThreadedExecution

SpecSeq == Init /\ [][NextSeq]_vars

\* One thread uses the context: loads, registries and extensions. The
\* classes loaded by getOrLoadDialect<T>() are A and B; A2 is loaded through
\* a registry, by its namespace.
NextReg ==
  \/ \E T \in DirectlyLoadedClasses : GetOrLoadDialect("t1", T)
  \/ CtorReturn("t1")
  \/ \E ns \in Namespaces : GetOrLoadDialectByName("t1", ns)
  \/ \E T \in DialectClasses : UserRegistryInsert(T)
  \/ \E e \in ExtensionIDs : UserRegistryAddExtension(e)
  \/ UserRegistryAppendToSelf("t1")
  \/ AppendDialectRegistry("t1")

SpecReg == Init /\ [][NextReg]_vars

\* One thread loads dialects, registers kinds and looks up dialects, types
\* and attributes by name.
NextLookup ==
  \/ \E T \in DirectlyLoadedClasses : GetOrLoadDialect("t1", T)
  \/ CtorReturn("t1")
  \/ \E k \in TypeKinds : AddType("t1", k)
  \/ \E k \in AttrKinds : AddAttribute("t1", k)
  \/ \E T \in DialectClasses : UserRegistryInsert(T)
  \/ AppendDialectRegistry("t1")
  \/ \E ns \in Namespaces : GetOrLoadDialectByName("t1", ns)
  \/ \E ns \in Namespaces : GetLoadedDialectByName("t1", ns)
  \/ \E name \in LookupNames : AbstractTypeLookup("t1", name)
  \/ \E name \in LookupNames : AbstractAttributeLookup("t1", name)

SpecLookup == Init /\ [][NextLookup]_vars

\* One thread loads dialect a, whose constructor registers operations,
\* and constructs operation names, with multithreading enabled or not.
NextOps ==
  \/ GetOrLoadDialect("t1", "A")
  \/ CtorReturn("t1")
  \/ \E k \in OpKinds : InsertOperation("t1", k)
  \/ \E name \in OpNames : OperationNameConstruct("t1", name)
  \/ \E disable \in BOOLEAN : DisableMultithreading(disable)

SpecOps == Init /\ [][NextOps]_vars

\* Registries are filled and merged: those the client constructs, one
\* after the other, and the registry of the context.
NextRegistry ==
  \/ \E T \in DialectClasses : UserRegistryInsert(T)
  \/ \E e \in ExtensionIDs : UserRegistryAddExtension(e)
  \/ UserRegistryAppendToSelf("t1")
  \/ NewUserRegistry
  \/ AppendDialectRegistry("t1")

SpecRegistry == Init /\ [][NextRegistry]_vars

\* Threads get affine maps from the uniquer of the context.
NextUniquer ==
  \/ \E t \in Threads, key \in AffineMapKeys : AffineMapGetImpl(t, key)
  \/ \E t \in Threads : UniquerWriteLock(t)
  \/ \E t \in Threads : UniquerInsert(t)
  \/ \E disable \in BOOLEAN : UniquerDisableMultithreading(disable)

SpecUniquer == Init /\ [][NextUniquer]_vars

\* The threading calls of one context, and the command line.
NextThreading ==
  \/ \E disable \in BOOLEAN : DisableMultithreading(disable)
  \/ \E enable \in BOOLEAN : EnableMultithreading(enable)
  \/ \E pool \in ExternalPools : SetThreadPool(pool)
  \/ \E flag \in BOOLEAN : ParseDisableThreading(flag)
  \/ EnterMultiThreadedExecution
  \/ ExitMultiThreadedExecution

SpecThreading == InitThreading /\ [][NextThreading]_vars

\* Actions are dispatched through the context.
NextAction ==
  \/ \E handler \in ActionHandlers \cup {"none"} :
       RegisterActionHandler(handler)
  \/ \E fn \in ActionFns, action \in Actions : ExecuteAction(fn, action)

SpecAction == Init /\ [][NextAction]_vars

\* TypeIDs are resolved and allocated.
NextTypeID ==
  \/ \E T \in Types : TypeIDGet(T)
  \/ \E a \in Allocators : AllocatorCreate(a)
  \/ \E a \in Allocators : AllocatorAllocate(a)
  \/ \E a \in Allocators : AllocatorDestroy(a)

SpecTypeID == Init /\ [][NextTypeID]_vars

\* Operations are created without operands and their results are fetched.
NextResults ==
  \/ \E numResults \in 0..MaxResults : CreateOperation(numResults, <<>>)
  \/ \E op \in 1..Cardinality(HeapBlocks), resultNumber \in 0..MaxResults :
       GetOpResultImpl(op, resultNumber)

\* One thread loads dialects and builds StringAttrs, before, during and
\* after the constructors.
NextStr ==
  \/ \E T \in DirectlyLoadedClasses : GetOrLoadDialect("t1", T)
  \/ CtorReturn("t1")
  \/ \E v \in StrValues : StringAttrGetCall("t1", v)

SpecStr == Init /\ [][NextStr]_vars

\* Thread t1 builds StringAttrs while thread t2 loads dialects.
NextStrMT ==
  \/ \E v \in StrValues : StringAttrInitializeRead("t1", v)
  \/ StringAttrInitializeRecord("t1")
  \/ \E T \in DirectlyLoadedClasses : GetOrLoadDialect("t2", T)
  \/ CtorReturn("t2")

SpecStrMT == Init /\ [][NextStrMT]_vars

\* Two threads construct OperationNames on a context with multithreading
\* enabled.
NextOpNameMT ==
  \/ \E t \in Threads, name \in OpNames : OperationNameFind(t, name)
  \/ \E t \in Threads : OperationNameInsert(t)

SpecOpNameMT == Init /\ [][NextOpNameMT]_vars

\* One thread loads a dialect, registers kinds and constructs
\* OperationNames, inside and outside a multi-threaded execution.
NextMTExec ==
  \/ GetOrLoadDialect("t1", "A")
  \/ CtorReturn("t1")
  \/ \E k \in TypeKinds : AddType("t1", k)
  \/ \E k \in AttrKinds : AddAttribute("t1", k)
  \/ \E k \in OpKinds : InsertOperation("t1", k)
  \/ \E name \in OpNames : OperationNameConstruct("t1", name)
  \/ EnterMultiThreadedExecution
  \/ ExitMultiThreadedExecution

SpecMTExec == Init /\ [][NextMTExec]_vars

\* One thread loads dialects and asks for the loaded dialects, at top
\* level and from inside the constructors.
NextGetLoaded ==
  \/ \E T \in DirectlyLoadedClasses : GetOrLoadDialect("t1", T)
  \/ CtorReturn("t1")
  \/ \E T \in DirectlyLoadedClasses : LoadDialect("t1", T)
  \/ GetLoadedDialects("t1")

SpecGetLoaded == Init /\ [][NextGetLoaded]_vars

SpecResults == Init /\ [][NextResults]_vars

\* Operations with one result are created over the values at hand and
\* cloned.  They have no regions, so only CloneOptions that differ in
\* cloneOperands are tried.
NextClone ==
  \/ \E operands \in SeqsUpTo(AvailableValues(irOps), MaxOperands) :
       CreateOperation(1, operands)
  \/ \E op \in 1..Cardinality(HeapBlocks), mapper \in Mappers,
          options \in {o \in CloneOptions : o.cloneRegions} :
       Clone(op, mapper, options)

SpecClone == Init /\ [][NextClone]_vars

\* The specification of the properties size: operations are created with
\* every accepted size.
NextProperties ==
  \E size \in PropertySizes : CreateWithProperties(size, <<>>)

SpecProperties == Init /\ [][NextProperties]_vars

\* The sizes the attribute accessors run with: no properties, or some.
AttrPropertySizes == {0, 8}

\* The specification of the attribute accessors of one operation.
NextAttrs ==
  \/ \E size \in AttrPropertySizes, attributes \in Dictionaries :
       CreateWithProperties(size, attributes)
  \/ \E name \in AttrNames, value \in AttrValues :
       SetDiscardableAttr(name, value)
  \/ \E name \in AttrNames, value \in AttrValues : SetAttr(name, value)
  \/ \E name \in AttrNames : RemoveDiscardableAttr(name)
  \/ \E name \in AttrNames : RemoveAttr(name)

SpecAttrs == Init /\ [][NextAttrs]_vars

\* ------------------------------------------------------------------------
\* Properties of dialect loading
\* ------------------------------------------------------------------------

\* The threads that are running the constructor of a dialect of namespace ns.
ConstructingThreads(ns) ==
  {t \in Threads : \E i \in 1..Len(stack[t]) : stack[t][i].ns = ns}

\* The getOrLoadDialect call that thread t made for ns found the null
\* placeholder in the table: it stopped on it, or read through it.
ObservedPlaceholder(t, ns) ==
  \/ /\ fatal.t = t
     /\ fatal.ns = ns
     /\ \/ fatal.kind \in {"StillLoading", "NullDeref"}
        \/ fatal.kind = "TypeIDMismatch" /\ Loading(ns)
  \/ /\ last.t = t
     /\ last.ns = ns
     /\ last.op = "getOrLoadDialect"
     /\ last.ret = 0

\* C1: when several threads call getOrLoadDialect<D>() on a context where D
\* is not loaded, D's constructor runs once, and no call of a thread other
\* than the one constructing D observes the null placeholder: every such
\* call returns the one non-null dialect.
C1_LoadOnceConcurrent ==
  \A ns \in AllNamespaces :
    /\ CtorCalls(ns) <= 1
    /\ \A t \in Threads :
         ObservedPlaceholder(t, ns) => t \in ConstructingThreads(ns)

\* C2: in one thread, a getOrLoadDialect call for a namespace that is not
\* loading invokes the constructor when the namespace is unloaded, and that
\* is the only constructor call ever made for the namespace; a call that
\* finds the namespace loaded with the same TypeID constructs nothing and
\* returns the pointer the table holds; the call that constructed returns
\* the pointer it stored in the table; and the pointer of a loaded namespace
\* never changes.
C2_SingleThreadLoadOnce ==
  [][/\ \A ns \in AllNamespaces :
          /\ CtorCalls(ns)' <= 1
          /\ Loaded(ns) =>
               Loaded(ns)' /\ loadedDialects'[ns] = loadedDialects[ns]
     /\ \A T \in DialectClasses :
          LET ns == getDialectNamespace(T) IN
          /\ (GetOrLoadDialect("t1", T) /\ Unloaded(ns)
                 /\ multiThreadedExecutionContext = 0)
               => /\ CtorCalls(ns)' = 1
                  /\ fatal' = NoFatal
          /\ (GetOrLoadDialect("t1", T) /\ Loaded(ns)
                 /\ getTypeID(loadedDialects[ns]) = DialectTypeID(T))
               => /\ dialectObjs' = dialectObjs
                  /\ fatal' = NoFatal
                  /\ last'.ret = loadedDialects[ns]
                  /\ last'.ns = ns
     /\ CtorReturn("t1")
          => /\ last'.ret # 0
             /\ last'.ret = loadedDialects'[last'.ns]
             /\ dialectObjs' = dialectObjs
    ]_vars

\* A second call for a loaded namespace has returned the dialect the first
\* call constructed.
C2_Witness ==
  /\ last.op = "getOrLoadDialect"
  /\ ~last.ctor
  /\ last.ret # 0
  /\ CtorCalls(last.ns) = 1
  /\ returned[last.ns] = {last.ret}
  /\ loadedDialects[last.ns] = last.ret

\* C3: getOrLoadDialect(ns, Y, ctor) on a namespace loaded with a TypeID
\* other than Y ends in the fatal error: no constructor runs, nothing is
\* returned and the table is left as it was.
C3_TypeIDMismatchAborts ==
  [][\A t \in Threads, T \in DialectClasses :
       LET ns == getDialectNamespace(T) IN
       (GetOrLoadDialect(t, T) /\ Loaded(ns)
          /\ getTypeID(loadedDialects[ns]) # DialectTypeID(T))
       => /\ fatal' = [kind |-> "TypeIDMismatch", t |-> t, ns |-> ns]
          /\ UNCHANGED <<loadedDialects, dialectObjs, stack, returned, last>>
    ]_vars

\* A call has aborted on a namespace loaded with another TypeID.
C3_Witness ==
  /\ fatal.kind = "TypeIDMismatch"
  /\ Loaded(fatal.ns)
  /\ CtorCalls(fatal.ns) = 1
  /\ returned[fatal.ns] = {loadedDialects[fatal.ns]}

\* C4: a loaded namespace stays loaded, a loading namespace stays loading or
\* becomes loaded, and an unloaded namespace does not become loaded in one
\* step.
C4_NamespaceStateMachine ==
  [][\A ns \in AllNamespaces :
       /\ Loaded(ns) => Loaded(ns)'
       /\ Loading(ns) => (Loading(ns)' \/ Loaded(ns)')
       /\ Unloaded(ns) => (Unloaded(ns)' \/ Loading(ns)')
    ]_vars

\* One namespace has gone through loading to loaded while another is still
\* loading.
C4_Witness ==
  /\ Loaded(<<"a">>)
  /\ Loading(<<"b">>)
  /\ fatal = NoFatal

\* C5: loadDialect<D>() called while D's namespace is loading returns
\* without a constructor call, without an error and without a change of the
\* loaded-dialect table.
C5_LoadDialectWhileLoading ==
  [][\A t \in Threads, T \in DialectClasses :
       (LoadDialect(t, T) /\ Loading(getDialectNamespace(T)))
       => /\ fatal' = NoFatal
          /\ last'.op = "loadDialect"
          /\ UNCHANGED <<loadedDialects, dialectObjs, stack, returned>>
    ]_vars

\* loadDialect has returned to the constructor of the dialect it named.
C5_Witness ==
  /\ last.op = "loadDialect"
  /\ Loading(last.ns)
  /\ last.t \in ConstructingThreads(last.ns)
  /\ CtorCalls(last.ns) = 1
  /\ fatal = NoFatal


\* ------------------------------------------------------------------------
\* Properties of the multi-threaded execution counter
\* ------------------------------------------------------------------------

\* The tables of registered kinds that a registration fills.
kindTables == <<registeredTypes, nameToType, registeredAttributes,
                nameToAttribute, operations, registeredOperations,
                registeredOperationsByName, sortedRegisteredOperations>>

\* A step in which thread t1 asks for a registration of a kind.
RegistrationAttempt ==
  \/ \E k \in TypeKinds : AddType("t1", k)
  \/ \E k \in AttrKinds : AddAttribute("t1", k)
  \/ \E k \in OpKinds : InsertOperation("t1", k)

\* What holds of every step taken while the counter is non-zero, whatever a
\* refused load does to the loaded-dialect table: no constructor runs, no
\* kind is registered, every load of an unloaded namespace and every
\* registration ends in an error, and getOrLoadDialect of a loaded dialect
\* returns it.
MultiThreadedStep ==
  /\ dialectObjs' = dialectObjs
  /\ UNCHANGED kindTables
  /\ RegistrationAttempt => fatal' # NoFatal
  /\ \A T \in DialectClasses :
       LET ns == getDialectNamespace(T) IN
       /\ (GetOrLoadDialect("t1", T) /\ Unloaded(ns))
            => /\ fatal' # NoFatal
               /\ UNCHANGED <<stack, returned, last>>
       /\ (GetOrLoadDialect("t1", T) /\ Loaded(ns)
              /\ getTypeID(loadedDialects[ns]) = DialectTypeID(T))
            => /\ fatal' = NoFatal
               /\ last'.ret = loadedDialects[ns]
               /\ last'.ret # 0
               /\ loadedDialects' = loadedDialects

\* C7 as stated: while the counter is non-zero every attempt to load an
\* unloaded dialect or to register a kind is stopped with an error before
\* any table is modified, the loaded-dialect table included.
C7_NoTableModified ==
  [][multiThreadedExecutionContext # 0 =>
       /\ MultiThreadedStep
       /\ \A T \in DialectClasses :
            (GetOrLoadDialect("t1", T) /\ Unloaded(getDialectNamespace(T)))
            => loadedDialects' = loadedDialects
    ]_vars

\* C7, amended: while the counter is non-zero no dialect is constructed and
\* no kind is registered, every attempt is stopped with an error, and a
\* loaded dialect can still be got; the refused load of an unloaded
\* namespace leaves the null placeholder of that namespace in the
\* loaded-dialect table and changes no other entry.
C7_NoConstructionNoRegistration ==
  [][multiThreadedExecutionContext # 0 =>
       /\ MultiThreadedStep
       /\ \A T \in DialectClasses :
            LET ns == getDialectNamespace(T) IN
            (GetOrLoadDialect("t1", T) /\ Unloaded(ns))
            => /\ Loading(ns)'
               /\ DOMAIN loadedDialects' = DOMAIN loadedDialects \cup {ns}
               /\ \A other \in DOMAIN loadedDialects :
                    loadedDialects'[other] = loadedDialects[other]
    ]_vars

\* A load was refused while the counter was non-zero: no constructor ran
\* and the placeholder is in the table.
C7_Witness ==
  /\ multiThreadedExecutionContext # 0
  /\ fatal.kind = "LoadInMultiThreaded"
  /\ Loading(fatal.ns)
  /\ CtorCalls(fatal.ns) = 0

\* ------------------------------------------------------------------------
\* Properties of registries and extensions
\* ------------------------------------------------------------------------

\* C9: every call of an extension's apply function was made with a table
\* in which each required dialect of the extension is loaded, and every
\* dialect handed to the call, the one that has just finished loading
\* included, is the dialect the table holds for its namespace: it is got by
\* getLoadedDialect and is not loading.
C9_ExtensionsAppliedOnLoaded ==
  \A i \in DOMAIN applyLog :
    LET r == applyLog[i]
        req == getRequiredDialects(r.ext)
    IN /\ \A j \in DOMAIN req :
            /\ req[j] \in DOMAIN r.tbl
            /\ r.tbl[req[j]] # 0
            /\ r.args[j] = r.tbl[req[j]]
       /\ \A j \in DOMAIN r.args :
            /\ r.args[j] # 0
            /\ dialectObjs[r.args[j]].ns \in DOMAIN r.tbl
            /\ r.tbl[dialectObjs[r.args[j]].ns] = r.args[j]

\* The extension anchored on two dialects has been applied, and so has the
\* extension without required dialects.
C9_Witness ==
  /\ \E i \in DOMAIN applyLog :
       applyLog[i].ext = "eAB" /\ Len(applyLog[i].args) = 2
  /\ \E i \in DOMAIN applyLog : applyLog[i].ext = "eAny"
  /\ fatal = NoFatal

\* C10: appending a registry to itself leaves it as it was and applies no
\* extension; appending to the context a registry whose namespaces and
\* extensions the context's registry all holds leaves the context's
\* registry as it was, applies no extension and ends without error.
C10_RedundantAppend ==
  [][/\ UserRegistryAppendToSelf("t1")
          => /\ userRegistry' = userRegistry
             /\ applyLog' = applyLog
     /\ (/\ AppendDialectRegistry("t1")
         /\ DOMAIN userRegistry.registry
              \subseteq DOMAIN dialectsRegistry.registry
         /\ Range(userRegistry.extensions)
              \subseteq Range(dialectsRegistry.extensions))
          => /\ dialectsRegistry' = dialectsRegistry
             /\ applyLog' = applyLog
             /\ fatal' = NoFatal
    ]_vars

\* A registry holding an extension was appended a second time, after the
\* extension had been applied to a loaded dialect.
C10_Witness ==
  /\ last.op = "appendDialectRegistry"
  /\ last.ret = 1
  /\ userRegistry.extensions # <<>>
  /\ userRegistry.registry # <<>>
  /\ applyLog # <<>>

\* ------------------------------------------------------------------------
\* Properties of the storage uniquer
\* ------------------------------------------------------------------------

\* C6: the calls of get for equal keys, from whichever thread and whichever
\* key instance, have all returned one and the same storage pointer, and
\* the uniquer holds no two storages with equal keys.
C6_UniquingIdempotent ==
  /\ \A v \in AffineMapKeyValues : Cardinality(uniquerReturned[v]) <= 1
  /\ \A p, q \in uniquerInstances :
       uniquerStorages[p].key = uniquerStorages[q].key => p = q

\* Thread t2 holds the write lock to insert a key that missed the lookup,
\* while a storage equal to it, built from another key instance, has been
\* inserted and returned meanwhile.
C6_Witness ==
  /\ uniquerThreading
  /\ uniquerWriter = "t2"
  /\ uniquerReturned[KeyValue(uniquerPending["t2"])] # {}
  /\ uniquerPending["t2"].results.addr = 2

\* ------------------------------------------------------------------------
\* Properties of TypeID
\* ------------------------------------------------------------------------

\* What the calls of TypeID::get have returned: one value per type, and
\* values that compare equal only for the same type.
GetIsInjective ==
  \A T1, T2 \in Types :
    \A id1 \in gotTypeIDs[T1], id2 \in gotTypeIDs[T2] :
      TypeIDEquals(id1, id2) <=> T1 = T2

\* C8 as stated: TypeID::get<T>() gives one value per type and different
\* values for different types, and every allocate() returns a TypeID
\* different from every TypeID issued before it.
C8_AllocateDiffersFromAllIssued ==
  [][/\ GetIsInjective'
     /\ \A a \in Allocators :
          AllocatorAllocate(a) =>
            \A id \in issuedTypeIDs : ~TypeIDEquals(lastAllocated', id)
    ]_vars

\* C8, amended: TypeID::get<T>() gives one value per type and different
\* values for different types, and every allocate() returns a TypeID
\* different from every TypeID that is valid at the call: those of static
\* objects, those of the implicit registry and those allocated by the
\* allocators that are still alive.
C8_AllocateDiffersFromValid ==
  [][/\ GetIsInjective'
     /\ \A a \in Allocators :
          AllocatorAllocate(a) =>
            \A id \in ValidTypeIDs : ~TypeIDEquals(lastAllocated', id)
    ]_vars

\* An allocator has allocated a TypeID after the fallback and an explicit
\* type were resolved and while the other allocator holds a TypeID.
C8_Witness ==
  /\ lastAllocated # 0
  /\ gotTypeIDs["F1"] # {}
  /\ gotTypeIDs["E1"] # {}
  /\ \E a \in DOMAIN allocatorIDs :
       allocatorIDs[a] # {} /\ lastAllocated \notin allocatorIDs[a]
  /\ \E a \in DOMAIN allocatorIDs : lastAllocated \in allocatorIDs[a]

\* ------------------------------------------------------------------------
\* Properties of the threading configuration
\* ------------------------------------------------------------------------

\* Threading is disabled globally: by the build or by the option.
GloballyDisabled == ~llvmEnableThreads \/ disableThreading

\* C12 as stated: whenever the global flag is set, isMultithreadingEnabled()
\* is false, whether the flag was set before or after the context was
\* created.
C12_FlagAlwaysWins == GloballyDisabled => ~isMultithreadingEnabled

\* C12, amended: a context created while the flag is set has
\* isMultithreadingEnabled() false; while the flag stays set no call of
\* enableMultithreading, disableMultithreading or setThreadPool changes
\* threadingIsEnabled; and in a build without threads
\* isMultithreadingEnabled() is false throughout.
C12_FlagFreezesThreading ==
  /\ GloballyDisabled => ~isMultithreadingEnabled
  /\ [][/\ (GloballyDisabled /\ GloballyDisabled')
             => threadingIsEnabled' = threadingIsEnabled
        /\ ~llvmEnableThreads => ~isMultithreadingEnabled'
       ]_vars

\* With the flag set since before a setThreadPool call, the call has
\* installed the pool and threading is still disabled.
C12_Witness ==
  /\ llvmEnableThreads
  /\ disableThreading
  /\ last.op = "setThreadPool"
  /\ threadPool \in ExternalPools
  /\ ~isMultithreadingEnabled

\* C13: while the pool of the context is one injected with setThreadPool,
\* the context owns no pool and has destroyed no injected pool, and every
\* call of disableMultithreading or enableMultithreading leaves the pool in
\* place, makes no pool and destroys none.
C13_InjectedPoolKept ==
  [][/\ threadPool' \in ExternalPools
          => /\ ownedThreadPool' = 0
             /\ destroyedPools' \cap ExternalPools = {}
     /\ \A b \in BOOLEAN :
          (/\ DisableMultithreading(b) \/ EnableMultithreading(b)
           /\ threadPool \in ExternalPools)
          => /\ threadPool' = threadPool
             /\ ownedThreadPool' = 0
             /\ destroyedPools' = destroyedPools
    ]_vars

\* After a pool was injected, which destroyed the pool the context owned,
\* threading was disabled and the injected pool is still the pool of the
\* context.
C13_Witness ==
  /\ threadPool \in ExternalPools
  /\ destroyedPools = {OwnedPoolAddress}
  /\ last.op = "disableMultithreading"
  /\ ~threadingIsEnabled
  /\ ~GloballyDisabled

\* ------------------------------------------------------------------------
\* Properties of action dispatch
\* ------------------------------------------------------------------------

\* The calls the step has added to the action log.
NewActionCalls == SubSeq(actionLog', Len(actionLog) + 1, Len(actionLog'))

\* The calls among them that executeAction made itself.
DirectActionCalls ==
  {i \in DOMAIN NewActionCalls : NewActionCalls[i].by = "executeAction"}

\* C14: executeAction(fn, action) makes exactly one call itself: of fn when
\* no handler is registered, else of the handler registered last, with
\* (fn, action); registerActionHandler replaces the handler, a null handler
\* included, and calls nothing; no other step changes the handler.
C14_ActionDispatch ==
  [][/\ \A fn \in ActionFns, action \in Actions :
          ExecuteAction(fn, action) =>
            /\ Cardinality(DirectActionCalls) = 1
            /\ \A i \in DirectActionCalls :
                 IF actionHandler = "none"
                 THEN /\ NewActionCalls[i].callee = fn
                      /\ Len(NewActionCalls) = 1
                 ELSE /\ NewActionCalls[i].callee = actionHandler
                      /\ NewActionCalls[i].fn = fn
                      /\ NewActionCalls[i].action = action
            /\ actionHandler' = actionHandler
     /\ \A handler \in ActionHandlers \cup {"none"} :
          RegisterActionHandler(handler) =>
            /\ actionHandler' = handler
            /\ actionLog' = actionLog
     /\ (actionHandler' # actionHandler) =>
          \E handler \in ActionHandlers \cup {"none"} :
            RegisterActionHandler(handler)
    ]_vars

\* A handler was called, then a null handler was registered and an action
\* function was run directly.
C14_Witness ==
  /\ actionHandler = "none"
  /\ \E i, j \in DOMAIN actionLog :
       /\ i < j
       /\ actionLog[i].callee = "h2"
       /\ actionLog[j].callee \in ActionFns
       /\ actionLog[j].by = "executeAction"

\* ------------------------------------------------------------------------
\* The subset law of registries
\* ------------------------------------------------------------------------

\* C11: every registry is a subset of itself, also after it was appended
\* to itself, and after a registry has been appended to the registry of the
\* context it is a subset of it, also when the destination already held an
\* entry or an extension under a key of the appended registry.
C11_SubsetLaw ==
  [][/\ IsSubsetOf(userRegistry', userRegistry')
     /\ IsSubsetOf(dialectsRegistry', dialectsRegistry')
     /\ IsSubsetOf(userRegistry, AppendTo(userRegistry, dialectsRegistry))
     /\ AppendDialectRegistry("t1")
          => IsSubsetOf(userRegistry, dialectsRegistry')
    ]_vars

\* A registry was appended to the registry of the context, which already
\* held another class under namespace "a" and held one of its extensions.
C11_Witness ==
  /\ last.op = "appendDialectRegistry"
  /\ last.ret = 0
  /\ <<"a">> \in DOMAIN userRegistry.registry
  /\ <<"a">> \in DOMAIN dialectsRegistry.registry
  /\ userRegistry.registry[<<"a">>].T # dialectsRegistry.registry[<<"a">>].T
  /\ <<"b">> \in DOMAIN userRegistry.registry
  /\ userRegistry.extensions # <<>>
  /\ Len(dialectsRegistry.extensions) = 2

\* ------------------------------------------------------------------------
\* Lookups by name
\* ------------------------------------------------------------------------

\* The tables of the context.
contextTables ==
  <<loadedDialects, dialectObjs, dialectsRegistry, applyLog, strVars,
    kindVars>>

\* A lookup that found nothing: the null result, no error, no table changed.
NotFound(op, name) ==
  /\ last'.op = op
  /\ last'.ns = name
  /\ last'.ret = 0
  /\ fatal' = NoFatal
  /\ UNCHANGED contextTables

\* C15: getLoadedDialect(name) and getOrLoadDialect(name) of a namespace
\* that is neither loaded nor registered, and AbstractType::lookup and
\* AbstractAttribute::lookup of a name that is not registered, return the
\* null result without an error and change no table of the context: no
\* placeholder is installed.
C15_LookupUnknownName ==
  [][/\ \A ns \in Namespaces :
          (/\ Unloaded(ns)
           /\ ns \notin DOMAIN dialectsRegistry.registry)
          => /\ GetLoadedDialectByName("t1", ns)
                  => NotFound("getLoadedDialect", ns)
             /\ GetOrLoadDialectByName("t1", ns)
                  => NotFound("getOrLoadDialectByName", ns)
     /\ \A name \in LookupNames :
          /\ (AbstractTypeLookup("t1", name)
                /\ name \notin DOMAIN nameToType)
               => NotFound("AbstractType::lookup", name)
          /\ (AbstractAttributeLookup("t1", name)
                /\ name \notin DOMAIN nameToAttribute)
               => NotFound("AbstractAttribute::lookup", name)
    ]_vars

\* getOrLoadDialect(name) has returned nullptr for a namespace that is
\* neither loaded nor registered, in a context that holds a registered
\* dialect and a registered type.
C15_Witness ==
  /\ last.op = "getOrLoadDialectByName"
  /\ last.ret = 0
  /\ Unloaded(last.ns)
  /\ last.ns \notin DOMAIN dialectsRegistry.registry
  /\ dialectsRegistry.registry # <<>>
  /\ nameToType # <<>>

\* ------------------------------------------------------------------------
\* Properties of operation names
\* ------------------------------------------------------------------------

\* The Impl at address p is owned by the operations map of the context, the
\* one owner of Impl objects: it has not been destroyed.
ImplAlive(p) == \E name \in DOMAIN operations : operations[name] = p

\* C16: every Impl obtained through OperationName(name, ctx) is alive and
\* owned by the context, and all OperationName objects constructed from one
\* name hold the same Impl, also when an operation of that name was
\* registered after the first of them was constructed.
C16_ImplImmortal ==
  \A name \in DOMAIN operationNames :
    /\ \A p \in operationNames[name] : ImplAlive(p)
    /\ Cardinality(operationNames[name]) <= 1

\* The names of the sorted container of registered operations.
SortedNames ==
  [i \in DOMAIN sortedRegisteredOperations |->
     opImpls[sortedRegisteredOperations[i]].name]

\* C17: getRegisteredOperations() holds every registered operation exactly
\* once and is sorted in ascending order of operation name.
C17_SortedRegisteredOperations ==
  /\ Range(sortedRegisteredOperations) = Range(registeredOperations)
  /\ Len(sortedRegisteredOperations)
       = Cardinality(Range(sortedRegisteredOperations))
  /\ \A i, j \in DOMAIN sortedRegisteredOperations :
       i < j => StrCompare(SortedNames[i], SortedNames[j]) < 0

\* The bytes [addr, addr + size) of a result object.
SlotsOverlap(a, b) == a.addr < b.addr + b.size /\ b.addr < a.addr + a.size

\* C18: for an operation with R results and an index i < R,
\* getOpResultImpl(i) takes the inline path exactly when i is below the
\* inline capacity and the out-of-line path otherwise; the slot it returns
\* overlaps the slot of no other index below R, and lies inside the
\* prefixAllocSize bytes that end where the Operation header starts.
C18_ResultSlots ==
  (lastResultImpl.path # "none"
   /\ lastResultImpl.index < irOps[lastResultImpl.op].numResults) =>
    LET o == irOps[lastResultImpl.op]
        i == lastResultImpl.index
    IN /\ (lastResultImpl.path = "inline") = (i < MaxInlineResults)
       /\ (lastResultImpl.path = "outOfLine") = ~(i < MaxInlineResults)
       /\ \A j \in 0..(o.numResults - 1) :
            j # i => ~SlotsOverlap(lastResultImpl,
                                   getOpResultImpl(o.this, j))
       /\ o.this - prefixAllocSize(o.numResults) <= lastResultImpl.addr
       /\ lastResultImpl.addr + lastResultImpl.size <= o.this
       /\ o.this - prefixAllocSize(o.numResults) = o.rawMem

\* An out-of-line result of an operation with several of them was fetched.
C18_Witness ==
  /\ lastResultImpl.path = "outOfLine"
  /\ lastResultImpl.index < irOps[lastResultImpl.op].numResults
  /\ irOps[lastResultImpl.op].numResults > MaxInlineResults + 1
  /\ lastResultImpl.index > MaxInlineResults

\* C19: a clone made with operands cloned has, at each position, the value
\* the mapper gives for the original's operand when the mapper has an entry
\* for it and the original's operand itself when it has none; the clone
\* leaves the operands of the original, and of every other operation, as
\* they were.
C19_CloneRemapsOperands ==
  [][lastClone' # lastClone =>
       LET o == irOps[lastClone'.orig]
           c == irOps'[lastClone'.clone]
           m == lastClone'.mapper
       IN /\ lastClone'.options.cloneOperands =>
               /\ DOMAIN c.operands = DOMAIN o.operands
               /\ \A k \in DOMAIN o.operands :
                    /\ o.operands[k] \in DOMAIN m =>
                         c.operands[k] = m[o.operands[k]]
                    /\ o.operands[k] \notin DOMAIN m =>
                         c.operands[k] = o.operands[k]
          /\ \A k \in DOMAIN irOps : irOps'[k].operands = irOps[k].operands
  ]_vars

\* An operation was cloned, operands included, with a mapper that sends one
\* of its operands to another value and has no entry for another of them.
C19_Witness ==
  /\ lastClone.clone # 0
  /\ lastClone.options.cloneOperands
  /\ \E k \in DOMAIN irOps[lastClone.orig].operands :
       LET v == irOps[lastClone.orig].operands[k]
       IN /\ v \in DOMAIN lastClone.mapper
          /\ lastClone.mapper[v] # v
          /\ irOps[lastClone.clone].operands[k] = lastClone.mapper[v]
  /\ \E k \in DOMAIN irOps[lastClone.orig].operands :
       irOps[lastClone.orig].operands[k] \notin DOMAIN lastClone.mapper

\* C20: a getOrLoadDialect(ns, id, ctor) made by a thread that is inside the
\* constructor of the dialect of ns, while the entry of ns is the null
\* placeholder, ends in the fatal error that reports the dialect as still
\* loading: it neither returns nor reads through the placeholder.
C20_RecursiveLoadIsFatal ==
  [][\A t \in Threads, ns \in Namespaces :
       (/\ \E k \in DOMAIN stack[t] : stack[t][k].ns = ns
        /\ ns \in DOMAIN loadedDialects
        /\ loadedDialects[ns] = 0
        /\ stack' = stack
        /\ \/ /\ fatal' # fatal
              /\ fatal'.t = t
              /\ fatal'.ns = ns
           \/ /\ last' # last
              /\ last'.t = t
              /\ last'.ns = ns
              /\ last'.op = "getOrLoadDialect")
       => fatal'.kind = "StillLoading"
  ]_vars

\* C21: when the call of getOrLoadDialect that ran the constructor of N
\* returns, whatever dialects that constructor loaded, the table maps N to
\* the dialect the constructor produced, the store went to the slot N lives
\* in after the constructor ran, no other namespace's entry changed, and
\* every dialect loaded since the constructor started is stored under its
\* own namespace.
C21_FinalStoreReResolves ==
  [][\A t \in Threads :
       (stack[t] # <<>> /\ stack'[t] = Pop(stack[t])) =>
         LET f == Top(stack[t]) IN
           /\ FinalStoreSlot(loadedDialects, f) = Slot(loadedDialects, f.ns)
           /\ DOMAIN loadedDialects' = DOMAIN loadedDialects
           /\ loadedDialects'[f.ns] = f.obj
           /\ dialectObjs[f.obj].ns = f.ns
           /\ \A ns \in DOMAIN loadedDialects \ {f.ns} :
                /\ loadedDialects'[ns] = loadedDialects[ns]
                /\ loadedDialects'[ns] > f.obj =>
                     dialectObjs[loadedDialects'[ns]].ns = ns
  ]_vars

\* The constructor of dialect a loaded dialect b, which grew the table, and
\* the call that loaded a has returned.
C21_Witness ==
  /\ last.op = "getOrLoadDialect"
  /\ last.ctor
  /\ last.ns = <<"a">>
  /\ Loaded(<<"a">>)
  /\ Loaded(<<"b">>)
  /\ loadedDialects[<<"b">>] > loadedDialects[<<"a">>]

\* The storages whose value is ns.suffix with both parts non-empty.
StoragesNaming(ns) ==
  {v \in DOMAIN strAttrStorages :
     HasDialectPrefix(v) /\ SplitDot(v).first = ns}

\* C22: once the dialect of namespace N is loaded, every StringAttr storage
\* whose value is N.suffix with both parts non-empty refers to that dialect,
\* whether it was initialised before the load, during the constructor or
\* afterwards, and no identifier is left pending under N.
C22_IdentifiersBackPatched ==
  \A ns \in Namespaces :
    Loaded(ns) =>
      /\ \A v \in StoragesNaming(ns) : strAttrStorages[v] = loadedDialects[ns]
      /\ ns \notin DOMAIN dialectReferencingStrAttrs

\* The call that loaded dialect a has just returned, and storages a.x and
\* a.y, built before it returned, refer to the dialect; a storage without a
\* suffix refers to none.
C22_Witness ==
  /\ last.op = "getOrLoadDialect"
  /\ last.ctor
  /\ last.ns = <<"a">>
  /\ Loaded(<<"a">>)
  /\ StoragesNaming(<<"a">>) = {<<"a", ".", "x">>, <<"a", ".", "y">>}
  /\ \A v \in StoragesNaming(<<"a">>) :
       strAttrStorages[v] = loadedDialects[<<"a">>]
  /\ <<"a", ".">> \in DOMAIN strAttrStorages
  /\ strAttrStorages[<<"a", ".">>] = 0

\* C27: when a thread has finished initialising a StringAttr storage of
\* value N.suffix and another thread has finished loading dialect N, in
\* whatever order their steps were taken, the storage refers to the loaded
\* dialect.
C27_ConcurrentBackPatch ==
  \A ns \in Namespaces :
    (/\ Loaded(ns)
     /\ \A t \in Threads : strAttrInFlight[t] = <<>> /\ stack[t] = <<>>)
    => \A v \in StoragesNaming(ns) : strAttrStorages[v] = loadedDialects[ns]

\* The Impl objects made for a name.
ImplsNamed(name) == {p \in DOMAIN opImpls : opImpls[p].name = name}

\* C23: with multithreading enabled, however the constructions of
\* OperationName for a name interleave, at most one Impl is made for the
\* name, it is the one the operations table holds, and every OperationName
\* constructed from the name holds it.
C23_OneImplPerName ==
  \A name \in OpNames :
    /\ Cardinality(ImplsNamed(name)) <= 1
    /\ name \in DOMAIN operations => ImplsNamed(name) = {operations[name]}
    /\ name \in DOMAIN operationNames =>
         operationNames[name] = {operations[name]}

\* Thread t1 missed the name in its reader section, another thread made the
\* Impl meanwhile, and t1, under the writer lock, took that Impl.
C23_Witness ==
  /\ last.op = "OperationNameLocked"
  /\ last.t = "t1"
  /\ ~last.ctor
  /\ ImplsNamed(last.ns) = {last.ret}
  /\ operationNames[last.ns] = {last.ret}

\* The tables a registration of a kind fills, the operations map aside.
registrationTables == <<registeredTypes, nameToType, registeredAttributes,
                        nameToAttribute, registeredOperations,
                        registeredOperationsByName,
                        sortedRegisteredOperations>>

\* C24 as stated: while the multi-threaded execution counter is non-zero no
\* step inserts into a table of the context; the construction of an
\* OperationName for a name not yet known adds no entry to the operations
\* map and makes no StringAttr storage.
C24_NoInsertWhileMultiThreaded ==
  [][multiThreadedExecutionContext # 0 =>
       /\ dialectObjs' = dialectObjs
       /\ UNCHANGED registrationTables
       /\ operations' = operations
       /\ strAttrStorages' = strAttrStorages
    ]_vars

\* C24, amended: while the counter is non-zero no dialect is constructed
\* and no kind is registered; the operations map changes only when an
\* OperationName is constructed for a name it does not hold, and then by
\* one entry, the new UnregisteredOpModel Impl of that name, every other
\* entry staying as it was.
C24_OnlyUnregisteredNamesInserted ==
  [][multiThreadedExecutionContext # 0 =>
       /\ dialectObjs' = dialectObjs
       /\ UNCHANGED registrationTables
       /\ operations' # operations =>
            /\ last'.op = "OperationName"
            /\ last'.ns \notin DOMAIN operations
            /\ DOMAIN operations' = DOMAIN operations \cup {last'.ns}
            /\ \A name \in DOMAIN operations :
                 operations'[name] = operations[name]
            /\ operations'[last'.ns] = Len(opImpls) + 1
            /\ opImpls'[Len(opImpls) + 1].name = last'.ns
            /\ opImpls'[Len(opImpls) + 1].typeID = VoidTypeID
       /\ \A name \in OpNames :
            (OperationNameConstruct("t1", name)
             /\ name \notin DOMAIN operations)
            => name \in DOMAIN operations'
    ]_vars

\* An OperationName was constructed for an unknown name while the counter
\* was non-zero, and the operations map holds the Impl made for it.
C24_Witness ==
  /\ multiThreadedExecutionContext # 0
  /\ last.op = "OperationName"
  /\ last.ns \in DOMAIN operations
  /\ operations[last.ns] = last.ret
  /\ opImpls[last.ret].typeID = VoidTypeID
  /\ Len(opImpls) = 1

\* C25: after construction and after every call of enableMultithreading,
\* disableMultithreading and setThreadPool, the thread pool pointer is
\* non-null when multithreading is enabled; it is null, and the context
\* owns no pool, when multithreading is disabled and the pointer is not
\* that of an injected pool; and when the context owns a pool the pointer
\* refers to it.
C25_ThreadPoolPointer ==
  /\ isMultithreadingEnabled => threadPool # 0
  /\ (~isMultithreadingEnabled /\ threadPool \notin ExternalPools) =>
       (threadPool = 0 /\ ownedThreadPool = 0)
  /\ ownedThreadPool # 0 => threadPool = ownedThreadPool

\* Multithreading was disabled on a context that owned its pool: the pool
\* is destroyed and the pointer is null.
C25_Witness ==
  /\ last.op = "disableMultithreading"
  /\ ~isMultithreadingEnabled
  /\ OwnedPoolAddress \in destroyedPools
  /\ threadPool = 0
  /\ ownedThreadPool = 0

\* C26: over any sequence of loads and appendDialectRegistry calls, no
\* extension is applied twice to the same dialects: the log of apply calls
\* holds no two calls of one extension with the same dialects handed over.
C26_ExtensionAppliedOnce ==
  \A i \in DOMAIN applyLog, j \in DOMAIN applyLog :
    i < j => ~(/\ applyLog[i].ext = applyLog[j].ext
               /\ applyLog[i].args = applyLog[j].args)

\* C28: every call of getLoadedDialects(), also one made while a
\* constructor runs, returns one pointer for each namespace that is loaded
\* and nothing else: the vector holds no null pointer and the call reads
\* through none.
C28_OnlyLoadedDialectsReturned ==
  [][(\/ /\ fatal' # fatal
         /\ fatal'.kind = "NullDeref"
         /\ fatal'.ns = <<>>
      \/ /\ last' # last
         /\ last'.op = "getLoadedDialects")
     => /\ fatal' = NoFatal
        /\ 0 \notin last'.result
        /\ last'.result =
             {loadedDialects[ns] : ns \in {n \in AllNamespaces : Loaded(n)}}
        /\ last'.ret = Cardinality({n \in AllNamespaces : Loaded(n)})
  ]_vars

\* C29: removeDiscardableAttr(name) returns the discardable attribute that
\* was stored under name and removeAttr(name) the attribute getAttr(name)
\* gave, null when there was none; when the call returns null the
\* operation's attributes are what they were, and in every case the
\* attributes stored under the other names are what they were.
AttrsOfOtherNamesKept(before, after, name) ==
  \A m \in AttrNames \ {name} :
    /\ getDiscardableAttr(after, m) = getDiscardableAttr(before, m)
    /\ getAttr(after, m) = getAttr(before, m)

C30_PropertiesSizeRoundTrip ==
  attrOp.exists =>
    getPropertiesStorageSize(attrOp) = attrOp.fullPropertiesStorageSize

====
